---- MODULE Spec2Model ----
(***************************************************************************)
(* A model of the survey ingestion and analytics engine of ptt-tools:      *)
(*   - survey_converter.py : one-hot table -> per-respondent QA records    *)
(*   - database.py         : the repository writes (batch save, delete)    *)
(*   - pages/02_...py      : the ingestion flow (check, delete, save)      *)
(*   - survey_analytics.py : the formulas and their result envelopes       *)
(*                                                                         *)
(* Python strings are sequences of one-character strings, so that slicing, *)
(* substring tests and case conversion are computed, not assumed.          *)
(***************************************************************************)
EXTENDS Integers, Sequences, FiniteSets, TLC

VARIABLES
    db,        \* the relational store: the five tables and their id counters
    last,      \* what the last repository-level call was and what it returned
    flow,      \* the ingestion flow of the page (one run at a time)
    conv,      \* the converter: its input table and its output
    inst,      \* the SurveyAnalytics instance (company_id, mission_respondents)
    env        \* the envelope returned by the last formula call

vars == <<db, last, flow, conv, inst, env>>

-----------------------------------------------------------------------------
(* Python strings *)

Range(s) == {s[i] : i \in 1..Len(s)}

\* str.startswith / str.endswith
StartsWith(s, p) ==
    /\ Len(p) <= Len(s)
    /\ SubSeq(s, 1, Len(p)) = p

EndsWith(s, suf) ==
    /\ Len(suf) <= Len(s)
    /\ SubSeq(s, Len(s) - Len(suf) + 1, Len(s)) = suf

\* `sub in s`
Contains(s, sub) ==
    \E i \in 1..(Len(s) - Len(sub) + 1) : SubSeq(s, i, i + Len(sub) - 1) = sub

\* str.find: the 1-based position of the first occurrence, 0 when absent
Find(s, sub) ==
    IF Contains(s, sub)
    THEN CHOOSE i \in 1..(Len(s) - Len(sub) + 1) :
            /\ SubSeq(s, i, i + Len(sub) - 1) = sub
            /\ \A j \in 1..(i - 1) : SubSeq(s, j, j + Len(sub) - 1) # sub
    ELSE 0

\* str.replace for a single character
ReplaceChar(s, from, to) == [i \in 1..Len(s) |-> IF s[i] = from THEN to ELSE s[i]]

UpperCase == <<"A","B","C","D","E","F","G","H","I","J","K","L","M","N","O","P",
               "Q","R","S","T","U","V","W","X","Y","Z">>
LowerCase == <<"a","b","c","d","e","f","g","h","i","j","k","l","m","n","o","p",
               "q","r","s","t","u","v","w","x","y","z">>

LowerChar(c) ==
    IF \E i \in 1..26 : UpperCase[i] = c
    THEN LowerCase[CHOOSE i \in 1..26 : UpperCase[i] = c]
    ELSE c

UpperChar(c) ==
    IF \E i \in 1..26 : LowerCase[i] = c
    THEN UpperCase[CHOOSE i \in 1..26 : LowerCase[i] = c]
    ELSE c

\* str.lower
Lower(s) == [i \in 1..Len(s) |-> LowerChar(s[i])]

IsSpace(c) == c \in {" ", "\t", "\n"}

\* bool(s.strip()): the string holds a character that is not white space
NonBlank(s) == \E i \in 1..Len(s) : ~IsSpace(s[i])

\* str.strip
Strip(s) ==
    IF ~NonBlank(s) THEN <<>>
    ELSE LET a == CHOOSE i \in 1..Len(s) :
                    ~IsSpace(s[i]) /\ \A j \in 1..(i - 1) : IsSpace(s[j])
             b == CHOOSE i \in 1..Len(s) :
                    ~IsSpace(s[i]) /\ \A j \in (i + 1)..Len(s) : IsSpace(s[j])
         IN  SubSeq(s, a, b)

-----------------------------------------------------------------------------
(* Python values met in a table cell or in a QA answer: a list of strings,  *)
(* a string, an integer (an indicator) or NaN (a float).                    *)

NaN     == [kind |-> "nan",  n |-> 0, s |-> <<>>, items |-> <<>>]
PyStr(s) == [kind |-> "str",  n |-> 0, s |-> s,    items |-> <<>>]
PyInt(n) == [kind |-> "int",  n |-> n, s |-> <<>>, items |-> <<>>]
PyList(l) == [kind |-> "list", n |-> 0, s |-> <<>>, items |-> l]

\* pd.notna
notna(v) == v.kind # "nan"

Digit == <<"0","1","2","3","4","5","6","7","8","9">>

\* ", ".join(repr(x) for x in items), for strings without quotes in them
RECURSIVE ReprItems(_, _)
ReprItems(items, i) ==
    IF i > Len(items) THEN <<>>
    ELSE (IF i > 1 THEN <<",", " ">> ELSE <<>>)
         \o <<"'">> \o items[i] \o <<"'">> \o ReprItems(items, i + 1)

\* str(v) for the values above (indicators are 0..9 here)
str(v) ==
    CASE v.kind = "str" -> v.s
      [] v.kind = "nan" -> <<"n","a","n">>
      [] v.kind = "int" -> <<Digit[v.n + 1]>>
      [] OTHER          -> <<"[">> \o ReprItems(v.items, 1) \o <<"]">>

-----------------------------------------------------------------------------
(* survey_converter.py: group_columns, row_to_qa, one_hot_df_to_json *)

DUnder == <<"_", "_">>
TextSuffix == <<"_", "t", "e", "x", "t">>

\* col.split("__", 1)[0] and col.split("__", 1)[1]
SplitBase(col) == SubSeq(col, 1, Find(col, DUnder) - 1)
SplitRest(col) == SubSeq(col, Find(col, DUnder) + 2, Len(col))

\* The base a column groups under: the text before the first "__", or the
\* whole name of a stand-alone column.
BaseOf(col) == IF Contains(col, DUnder) THEN SplitBase(col) ELSE col

\* group_columns: base -> related columns, as a sequence of [base, cols] in
\* first-seen order of base (the insertion order of the Python dict).
RECURSIVE GroupFrom(_, _, _)
GroupFrom(columns, i, grouped) ==
    IF i > Len(columns) THEN grouped
    ELSE LET col  == columns[i]
             base == BaseOf(col)
             add  == IF Contains(col, DUnder) THEN <<col>> ELSE <<>>
             seen == \E k \in 1..Len(grouped) : grouped[k].base = base
             next == IF seen
                     THEN [k \in 1..Len(grouped) |->
                             IF grouped[k].base = base
                             THEN [base |-> base, cols |-> grouped[k].cols \o add]
                             ELSE grouped[k]]
                     ELSE Append(grouped, [base |-> base, cols |-> add])
         IN  GroupFrom(columns, i + 1, next)

group_columns(columns) == GroupFrom(columns, 1, <<>>)

OtherWords == << <<"o","t","r","o">>, <<"o","t","h","e","r">>,
                 <<"e","s","p","e","c","i","f">>,
                 <<"a","ñ","a","d","e"," ","i","n","f","o","r","m","a","c","i","ó","n">> >>

\* "otro" in option.lower() or "other" in ... or "especif" in ... or "añade información" in ...
IsOtherOption(option) == \E k \in 1..Len(OtherWords) : Contains(Lower(option), OtherWords[k])

\* row[col] == 1 or str(row[col]).strip() == "1"
IsSelected(v) == (v.kind = "int" /\ v.n = 1) \/ Strip(str(v)) = <<"1">>

None == [set |-> FALSE, v |-> <<>>]
Some(s) == [set |-> TRUE, v |-> s]
\* the truth value Python gives an optional string
Truthy(o) == o.set /\ o.v # <<>>

\* The first pass over a closed question's columns (lines 137-148): the
\* selected options, the "other" text and the "other" option label.
RECURSIVE FirstPass(_, _, _, _)
FirstPass(row, cols, i, acc) ==
    IF i > Len(cols) THEN acc
    ELSE LET col == cols[i]
             val == row[col]
             option == ReplaceChar(SplitRest(col), "_", " ")
             next ==
                IF EndsWith(col, TextSuffix)
                THEN IF notna(val) /\ NonBlank(str(val))
                     THEN [acc EXCEPT !.other_text = Some(Strip(str(val)))]
                     ELSE acc
                ELSE IF IsSelected(val)
                     THEN IF IsOtherOption(option)
                          THEN [acc EXCEPT !.other_option = Some(option)]
                          ELSE [acc EXCEPT !.selected = Append(@, option)]
                     ELSE acc
         IN  FirstPass(row, cols, i + 1, next)

ColonSpace == <<":", " ">>

\* (mutant) the "other" option and its text as two entries
SelectedOfSeparate(row, cols) ==
    LET p == FirstPass(row, cols, 1,
                       [selected |-> <<>>, other_text |-> None, other_option |-> None])
    IN  p.selected
        \o (IF Truthy(p.other_option) THEN <<p.other_option.v>> ELSE <<>>)
        \o (IF Truthy(p.other_text) THEN <<p.other_text.v>> ELSE <<>>)

\* Lines 132-156: the selected list of one closed question.
SelectedOf(row, cols) ==
    LET p == FirstPass(row, cols, 1,
                       [selected |-> <<>>, other_text |-> None, other_option |-> None])
    IN  IF Truthy(p.other_option) /\ Truthy(p.other_text)
        THEN Append(p.selected, p.other_option.v \o ColonSpace \o p.other_text.v)
        ELSE IF Truthy(p.other_option) THEN Append(p.selected, p.other_option.v)
        ELSE IF Truthy(p.other_text) THEN Append(p.selected, p.other_text.v)
        ELSE p.selected

\* Lines 168-170: underscores to spaces, first letter capitalised.
Humanize(base) ==
    LET q == ReplaceChar(base, "_", " ")
    IN  IF q = <<>> THEN q ELSE <<UpperChar(q[1])>> \o SubSeq(q, 2, Len(q))

QA(idx, question, answer) == [index |-> idx, question |-> question, answer |-> answer]

\* (mutant) a skip that forgets `q_idx += 1`
SkipEmptyNoAdvance(st) == st

\* What a closed question with an empty selected list does to the record list
\* and to the counter (lines 158-160): nothing is emitted, the counter advances.
SkipEmpty(st) == [st EXCEPT !.q_idx = @ + 1]

\* (mutant) the index as the number of the record among those emitted
EmitNumbered(st, base, answer) ==
    [qa_list |-> Append(st.qa_list,
                        QA(Len(st.qa_list) + 1, Humanize(base), answer)),
     q_idx   |-> st.q_idx + 1]

\* Lines 172-179: emit the record and advance the counter.
Emit(st, base, answer) ==
    [qa_list |-> Append(st.qa_list, QA(st.q_idx, Humanize(base), answer)),
     q_idx   |-> st.q_idx + 1]

\* (mutant) an iteration without the `if not selected: continue` test
GroupStepNoSkip(row, g, st) ==
    IF g.cols # <<>>
    THEN Emit(st, g.base, PyList(SelectedOf(row, g.cols)))
    ELSE Emit(st, g.base, row[g.base])

\* One iteration of the loop over the groups (lines 130-179).
GroupStep(row, g, st) ==
    IF g.cols # <<>>
    THEN LET selected == SelectedOf(row, g.cols)
         IN  IF selected = <<>> THEN SkipEmpty(st)
             ELSE Emit(st, g.base, PyList(selected))
    ELSE Emit(st, g.base, row[g.base])

RECURSIVE RowLoop(_, _, _, _)
RowLoop(row, groups, i, st) ==
    IF i > Len(groups) THEN st
    ELSE RowLoop(row, groups, i + 1, GroupStep(row, groups[i], st))

row_to_qa(row, groups) == RowLoop(row, groups, 1, [qa_list |-> <<>>, q_idx |-> 1]).qa_list

\* (mutant) the rows are converted last to first
one_hot_df_to_json_reversed(df) ==
    LET groups == group_columns(df.columns)
    IN  [r \in 1..Len(df.rows) |->
            row_to_qa(df.rows[Len(df.rows) + 1 - r], groups)]

\* one_hot_df_to_json: group once, convert every row in row order.
one_hot_df_to_json(df) ==
    LET groups == group_columns(df.columns)
    IN  [r \in 1..Len(df.rows) |-> row_to_qa(df.rows[r], groups)]

-----------------------------------------------------------------------------
(* The one-hot tables the converter is given.  load_surveymonkey_one_hot   *)
(* derives every column of the table from one column of the raw CSV: an    *)
(* open question keeps the raw cell, an option becomes a 0/1 indicator, and *)
(* an "other (specify)" option becomes an indicator plus a _text column     *)
(* holding the raw cell.                                                    *)

MaxRows == 2

\* One derived column: its name, how it is derived, and the raw column it
\* is derived from.
Col(name, kind, src) == [name |-> name, kind |-> kind, src |-> src]

ColA     == <<"a">>
ColBx    == <<"b","_","_","x">>
ColBesp  == <<"b","_","_","e","s","p","e","c","i","f","i","q","u","e">>
ColBespT == ColBesp \o TextSuffix
ColCy    == <<"c","_","_","y">>

\* Three question groups: a (open, raw column 1), b (closed: option x from raw
\* column 2, option "especifique" with its text from raw column 3) and
\* c (closed: option y, raw column 4), in two column orders.
Layouts ==
    { << Col(ColA, "open", 1), Col(ColBx, "bin", 2), Col(ColBesp, "bin", 3),
         Col(ColBespT, "text", 3), Col(ColCy, "bin", 4) >>,
      << Col(ColCy, "bin", 4), Col(ColBx, "bin", 2), Col(ColBesp, "bin", 3),
         Col(ColBespT, "text", 3), Col(ColA, "open", 1) >> }

NRaw == 4

Txt   == <<"t">>
Blank == <<" ">>

\* The raw cells of one respondent: an empty cell is read as NaN, any other
\* cell as a string.  The cell of the "other" option (raw column 3) holds free
\* text, possibly white space only; the others hold a text or nothing.
RawRows ==
    { r \in [1..NRaw -> {NaN, PyStr(Txt), PyStr(Blank)}] :
        \A i \in {1, 2, 4} : r[i] \in {NaN, PyStr(Txt)} }

\* df[name] = df[idx]                          (open, and the _text column)
\* df[name] = df[idx].notna().astype("int8")   (indicator)
OneHotCell(kind, raw) ==
    IF kind = "bin" THEN PyInt(IF notna(raw) THEN 1 ELSE 0) ELSE raw

OneHotRow(layout, raw) ==
    [name \in {layout[i].name : i \in 1..Len(layout)} |->
        LET c == CHOOSE i \in 1..Len(layout) : layout[i].name = name
        IN  OneHotCell(layout[c].kind, raw[layout[c].src])]

OneHotTable(layout, raws) ==
    [columns |-> [i \in 1..Len(layout) |-> layout[i].name],
     rows    |-> [r \in 1..Len(raws) |-> OneHotRow(layout, raws[r])]]

RawTables == UNION {[1..n -> RawRows] : n \in 1..MaxRows}

NoTable == [columns |-> <<>>, rows |-> <<>>]

-----------------------------------------------------------------------------
(* Initial values of the parts of the state *)

EmptyDb ==
    [companies |-> {}, questions |-> {}, options |-> {}, respondents |-> {},
     answers |-> {},
     nextId |-> [companies |-> 1, questions |-> 1, options |-> 1,
                 respondents |-> 1, answers |-> 1]]

NoCall ==
    [op |-> "none", company |-> 0, ok |-> TRUE, failed |-> "none", fault |-> 0,
     data |-> <<>>, respondents |-> 0, answers |-> 0, n |-> 0]
IdleFlow ==
    [pc |-> "idle", company_name |-> <<>>, company_id |-> 0,
     data_exists |-> FALSE, deleted |-> "none", uploaded |-> <<>>,
     json_data |-> <<>>, runs |-> 0]
NoConv == [stage |-> "none", df |-> NoTable, groups |-> <<>>, out |-> <<>>]
NoInst == [company_id |-> 0, mission_respondents |-> {}, has_mission |-> FALSE]
NoEnv ==
    [formula |-> "none", keys |-> {}, found |-> FALSE, total |-> -1,
     failed |-> FALSE, raised |-> FALSE, total_employees |-> 0, value |-> 0,
     question |-> 0]

-----------------------------------------------------------------------------
(* The converter as a state machine: a table is handed in, one_hot_df_to_json *)
(* turns it into the QA lists.                                                *)

ConvInit ==
    /\ \E layout \in Layouts, raws \in RawTables :
          conv = [stage |-> "input", df |-> OneHotTable(layout, raws),
                  groups |-> <<>>, out |-> <<>>]
    /\ db = EmptyDb /\ last = NoCall /\ flow = IdleFlow
    /\ inst = NoInst /\ env = NoEnv

Convert ==
    /\ conv.stage = "input"
    /\ conv' = [conv EXCEPT !.stage = "done",
                             !.groups = group_columns(conv.df.columns),
                             !.out = one_hot_df_to_json(conv.df)]
    /\ UNCHANGED <<db, last, flow, inst, env>>

ConvNext == Convert

SpecConv == ConvInit /\ [][ConvNext]_vars

\* A closed question with two options whose labels read as "other": "otro
\* x" (raw column 1) and "especifique" with its text (raw column 2), and a
\* plain option y (raw column 3).
ColBotro == <<"b","_","_","o","t","r","o","_","x">>
ColBy    == <<"b","_","_","y">>

OthersLayout ==
    << Col(ColBotro, "bin", 1), Col(ColBesp, "bin", 2), Col(ColBespT, "text", 2),
       Col(ColBy, "bin", 3) >>

OthersRows ==
    { r \in [1..3 -> {NaN, PyStr(Txt), PyStr(Blank)}] :
        \A i \in {1, 3} : r[i] \in {NaN, PyStr(Txt)} }

OthersInit ==
    /\ \E raws \in UNION {[1..n -> OthersRows] : n \in 1..MaxRows} :
          conv = [stage |-> "input", df |-> OneHotTable(OthersLayout, raws),
                  groups |-> <<>>, out |-> <<>>]
    /\ db = EmptyDb /\ last = NoCall /\ flow = IdleFlow
    /\ inst = NoInst /\ env = NoEnv

SpecOthers == OthersInit /\ [][ConvNext]_vars

-----------------------------------------------------------------------------
(* The relational store behind the Supabase client.  A table is a set of   *)
(* rows; a select returns the rows in id order; ids come from a per-table  *)
(* counter and are never reused.  Every repository call may raise: `fault` *)
(* is the number of the call (in the order the function makes them) that   *)
(* raises, 0 when none does.                                               *)

NoId == 0
Null == <<"NULL">>

\* The rows of table t that belong to company c.
RowsOf(d, t, c) == {r \in d[t] : r.company_id = c}

\* The rows of a set in id order.
RECURSIVE ById(_)
ById(rows) ==
    IF rows = {} THEN <<>>
    ELSE LET r == CHOOSE x \in rows : \A y \in rows : x.id <= y.id
         IN  <<r>> \o ById(rows \ {r})

\* One repository call: its number, and whether it is the one that raises.
Raises(calls, fault) == calls + 1 = fault

\* table(t).insert(batch): every row of the batch gets the next id.
InsertRows(d, t, batch) ==
    LET first == d.nextId[t]
        rows  == [i \in 1..Len(batch) |-> [id |-> first + i - 1] @@ batch[i]]
    IN  [d   |-> [d EXCEPT ![t] = @ \cup {rows[i] : i \in 1..Len(batch)},
                           !.nextId[t] = @ + Len(batch)],
         data |-> rows]

\* table(t).upsert(batch, on_conflict=key): a row of the batch whose key
\* columns equal those of a stored row replaces that row's other columns and
\* keeps its id; any other row is inserted.  The call returns every row of
\* the batch as stored.
RECURSIVE UpsertFrom(_, _, _, _, _, _)
UpsertFrom(d, t, key, batch, i, data) ==
    IF i > Len(batch) THEN [d |-> d, data |-> data]
    ELSE LET b    == batch[i]
             same == {r \in d[t] : \A k \in key : r[k] = b[k]}
         IN  IF same # {}
             THEN LET old == CHOOSE r \in same : TRUE
                      new == [id |-> old.id] @@ b
                  IN  UpsertFrom([d EXCEPT ![t] = (@ \ {old}) \cup {new}],
                                 t, key, batch, i + 1, Append(data, new))
             ELSE LET ins == InsertRows(d, t, <<b>>)
                  IN  UpsertFrom(ins.d, t, key, batch, i + 1, data \o ins.data)

\* (mutant) an upsert that never sees a conflict: it inserts the whole batch
UpsertAsInsert(d, t, key, batch) == InsertRows(d, t, batch)

Upsert(d, t, key, batch) == UpsertFrom(d, t, key, batch, 1, <<>>)

\* table(t).delete().eq('company_id', c)
DeleteOf(d, t, c) == [d EXCEPT ![t] = {r \in @ : r.company_id # c}]

-----------------------------------------------------------------------------
(* database.py: get_company_id, check_company_data_exists *)

CompanyByName(d, name) == {r \in d.companies : r.company_name = name}

\* get_company_id(supabase, company_name, create_if_not_exists=True): the
\* select is call 1, the insert call 2; a raise escapes to the caller.
get_company_id(d, name, fault) ==
    IF Raises(0, fault) THEN [d |-> d, raised |-> TRUE, id |-> NoId]
    ELSE IF CompanyByName(d, name) # {}
    THEN [d |-> d, raised |-> FALSE, id |-> ById(CompanyByName(d, name))[1].id]
    ELSE IF Raises(1, fault) THEN [d |-> d, raised |-> TRUE, id |-> NoId]
    ELSE LET ins == InsertRows(d, "companies", <<[company_name |-> name]>>)
         IN  [d |-> ins.d, raised |-> FALSE, id |-> ins.data[1].id]

\* check_company_data_exists: questions_query.count > 0
check_company_data_exists(d, company_id) ==
    Cardinality(RowsOf(d, "questions", company_id)) > 0

-----------------------------------------------------------------------------
(* database.py: delete_company_data *)

\* The result of a call of the data layer: the store it leaves, the boolean
\* it returns, the step its message names ("none" on success), and the
\* numbers of respondents and answers rows it inserted.
Result(d, ok, failed, nr, na) ==
    [d |-> d, ok |-> ok, failed |-> failed, respondents |-> nr, answers |-> na]

\* (mutant) the parents are deleted before the rows that refer to them
DeleteOrderParentsFirst == <<"questions", "respondents", "options", "answers">>

DeleteOrder == <<"answers", "options", "respondents", "questions">>

\* (mutant) a step that passes over a failure, its own or an earlier one
DeleteStepPastFailure(st, company_id, k, fault) ==
    IF Raises(k, fault) THEN Result(st.d, FALSE, DeleteOrder[k], 0, 0)
    ELSE Result(DeleteOf(st.d, DeleteOrder[k], company_id), st.ok, st.failed, 0, 0)

\* One of the four try blocks: reached only if no earlier one returned; the
\* delete either raises, and the function returns False, or removes the rows.
DeleteStep(st, company_id, k, fault) ==
    IF ~st.ok THEN st
    ELSE IF Raises(k, fault) THEN Result(st.d, FALSE, DeleteOrder[k], 0, 0)
    ELSE Result(DeleteOf(st.d, DeleteOrder[k], company_id), TRUE, "none", 0, 0)

\* delete_company_data(supabase, company_name): call 1 is the select on
\* companies, calls 2..5 the deletes.
delete_company_data(d, company_name, fault) ==
    IF Raises(0, fault) THEN Result(d, FALSE, "general", 0, 0)
    ELSE IF CompanyByName(d, company_name) = {} THEN Result(d, FALSE, "not found", 0, 0)
    ELSE LET company_id == ById(CompanyByName(d, company_name))[1].id
             s0 == Result(d, TRUE, "none", 0, 0)
             s1 == DeleteStep(s0, company_id, 1, fault)
             s2 == DeleteStep(s1, company_id, 2, fault)
             s3 == DeleteStep(s2, company_id, 3, fault)
         IN  DeleteStep(s3, company_id, 4, fault)

-----------------------------------------------------------------------------
(* database.py: save_survey_data_batch, step 1 *)

\* The QA records of all respondents, in the order the loops visit them.
RECURSIVE Entries(_, _)
Entries(json_data, r) ==
    IF r > Len(json_data) THEN <<>>
    ELSE json_data[r] \o Entries(json_data, r + 1)

\* "Determine question type"
QuestionTypeOf(answer) ==
    IF answer.kind = "list" THEN "multi"
    ELSE IF answer.kind = "str" /\ NonBlank(answer.s) THEN "single"
    ELSE "open"

\* `[answer] if question_type == 'single' else answer` as the for loop walks
\* it: a list gives its items, a string its characters, a float raises.
AnswersList(question_type, answer) ==
    IF question_type = "single" THEN [ok |-> TRUE, items |-> <<answer>>]
    ELSE IF answer.kind = "list"
    THEN [ok |-> TRUE,
          items |-> [i \in 1..Len(answer.items) |-> PyStr(answer.items[i])]]
    ELSE IF answer.kind = "str"
    THEN [ok |-> TRUE,
          items |-> [i \in 1..Len(answer.s) |-> PyStr(<<answer.s[i]>>)]]
    ELSE [ok |-> FALSE, items |-> <<>>]

HasQuestion(qs, text) == \E k \in 1..Len(qs) : qs[k].question_text = text
QuestionInfo(qs, text) == qs[CHOOSE k \in 1..Len(qs) : qs[k].question_text = text]

\* (mutant) every record of a question text overwrites index and type
StoreQuestionInfoAlways(acc, qa) ==
    LET info == [question_text |-> qa.question, index |-> qa.index,
                 type |-> QuestionTypeOf(qa.answer)]
    IN  IF HasQuestion(acc, qa.question)
        THEN [k \in 1..Len(acc) |->
                 IF acc[k].question_text = qa.question THEN info ELSE acc[k]]
        ELSE Append(acc, info)

\* `if question_text not in all_questions: all_questions[question_text] = ...`
StoreQuestionInfo(acc, qa) ==
    IF HasQuestion(acc, qa.question) THEN acc
    ELSE Append(acc, [question_text |-> qa.question, index |-> qa.index,
                      type |-> QuestionTypeOf(qa.answer)])

\* all_questions: the first record of a question text fixes index and type
RECURSIVE AllQuestionsFrom(_, _, _)
AllQuestionsFrom(entries, i, acc) ==
    IF i > Len(entries) THEN acc
    ELSE AllQuestionsFrom(entries, i + 1, StoreQuestionInfo(acc, entries[i]))

all_questions(json_data) == AllQuestionsFrom(Entries(json_data, 1), 1, <<>>)

\* Adds the keys (question_text, option_text) not yet in the dictionary.
RECURSIVE AddOptions(_, _, _, _)
AddOptions(acc, text, items, k) ==
    IF k > Len(items) THEN acc
    ELSE LET key == [question_text |-> text, option_text |-> str(items[k])]
         IN  AddOptions(IF \E j \in 1..Len(acc) : acc[j] = key
                        THEN acc ELSE Append(acc, key),
                        text, items, k + 1)

\* all_options: every record adds the options of its own answer's shape
RECURSIVE AllOptionsFrom(_, _, _)
AllOptionsFrom(entries, i, acc) ==
    IF i > Len(entries) THEN acc
    ELSE LET qa == entries[i]
             ty == QuestionTypeOf(qa.answer)
         IN  AllOptionsFrom(entries, i + 1,
                 IF ty = "open" THEN acc
                 ELSE AddOptions(acc, qa.question,
                                 AnswersList(ty, qa.answer).items, 1))

all_options(json_data) == AllOptionsFrom(Entries(json_data, 1), 1, <<>>)

-----------------------------------------------------------------------------
(* database.py: save_survey_data_batch, steps 2 to 4 *)

batch_size == 50
answers_chunk_size == 100

questions_batch(json_data, company_id) ==
    LET qs == all_questions(json_data)
    IN  [k \in 1..Len(qs) |->
            [company_id |-> company_id,
             question_text |-> qs[k].question_text,
             question_type |-> qs[k].type,
             question_index |-> qs[k].index]]

\* question_id_map, as the rows the upsert returned
InQuestionIdMap(rows, text) == \E k \in 1..Len(rows) : rows[k].question_text = text
QuestionIdOf(rows, text) ==
    rows[CHOOSE k \in 1..Len(rows) : rows[k].question_text = text].id

RECURSIVE OptionsBatchFrom(_, _, _, _)
OptionsBatchFrom(opts, qrows, company_id, i) ==
    IF i > Len(opts) THEN <<>>
    ELSE (IF InQuestionIdMap(qrows, opts[i].question_text)
          THEN <<[company_id |-> company_id,
                  question_id |-> QuestionIdOf(qrows, opts[i].question_text),
                  option_text |-> opts[i].option_text]>>
          ELSE <<>>)
         \o OptionsBatchFrom(opts, qrows, company_id, i + 1)

options_batch(json_data, qrows, company_id) ==
    OptionsBatchFrom(all_options(json_data), qrows, company_id, 1)

\* option_id_map.get((question_id, ans_str)), NoId for None
OptionIdOf(orows, question_id, text) ==
    LET hit == {k \in 1..Len(orows) : /\ orows[k].question_id = question_id
                                      /\ orows[k].option_text = text}
    IN  IF hit = {} THEN NoId ELSE orows[CHOOSE k \in hit : TRUE].id

Answer(company_id, respondent_id, question_id, option_id, open_value) ==
    [company_id |-> company_id, respondent_id |-> respondent_id,
     question_id |-> question_id, option_id |-> option_id,
     open_value |-> open_value]

\* The answers rows of the options of one record that are in option_id_map
RECURSIVE OptionAnswers(_, _, _, _, _, _)
OptionAnswers(items, k, orows, company_id, respondent_id, question_id) ==
    IF k > Len(items) THEN <<>>
    ELSE LET option_id == OptionIdOf(orows, question_id, str(items[k]))
         IN  (IF option_id # NoId
              THEN <<Answer(company_id, respondent_id, question_id, option_id, Null)>>
              ELSE <<>>)
             \o OptionAnswers(items, k + 1, orows, company_id, respondent_id,
                              question_id)

\* The answers rows of one QA record; the stored type of the question, not
\* the record's own shape, decides how the answer is read.
AnswersOfQA(qa, qs, qrows, orows, company_id, respondent_id) ==
    IF ~InQuestionIdMap(qrows, qa.question) THEN [ok |-> TRUE, rows |-> <<>>]
    ELSE LET question_id   == QuestionIdOf(qrows, qa.question)
             question_type == QuestionInfo(qs, qa.question).type
         IN  IF question_type = "open"
             THEN [ok |-> TRUE,
                   rows |-> <<Answer(company_id, respondent_id, question_id,
                                     NoId, str(qa.answer))>>]
             ELSE LET al == AnswersList(question_type, qa.answer)
                  IN  [ok |-> al.ok,
                       rows |-> OptionAnswers(al.items, 1, orows, company_id,
                                              respondent_id, question_id)]

\* all_answers of one respondent, then of a batch of respondents
RECURSIVE AnswersOfRespondent(_, _, _, _, _, _, _)
AnswersOfRespondent(qas, k, qs, qrows, orows, company_id, respondent_id) ==
    IF k > Len(qas) THEN [ok |-> TRUE, rows |-> <<>>]
    ELSE LET a == AnswersOfQA(qas[k], qs, qrows, orows, company_id, respondent_id)
             rest == AnswersOfRespondent(qas, k + 1, qs, qrows, orows,
                                         company_id, respondent_id)
         IN  IF ~a.ok THEN a
             ELSE [ok |-> rest.ok, rows |-> a.rows \o rest.rows]

RECURSIVE AllAnswers(_, _, _, _, _, _, _)
AllAnswers(current_batch, rrows, idx, qs, qrows, orows, company_id) ==
    IF idx > Len(current_batch) THEN [ok |-> TRUE, rows |-> <<>>]
    ELSE LET a == AnswersOfRespondent(current_batch[idx], 1, qs, qrows, orows,
                                      company_id, rrows[idx].id)
             rest == AllAnswers(current_batch, rrows, idx + 1, qs, qrows, orows,
                                company_id)
         IN  IF ~a.ok THEN a
             ELSE [ok |-> rest.ok, rows |-> a.rows \o rest.rows]

\* The loop over the chunks of all_answers: one insert call per chunk.
RECURSIVE InsertChunks(_, _, _, _, _)
InsertChunks(st, all_answers, j, calls, fault) ==
    IF j > Len(all_answers) THEN [st |-> st, calls |-> calls]
    ELSE IF Raises(calls, fault)
    THEN [st |-> Result(st.d, FALSE, "answers", st.respondents, st.answers),
          calls |-> calls + 1]
    ELSE LET last_j == IF j + answers_chunk_size - 1 < Len(all_answers)
                       THEN j + answers_chunk_size - 1 ELSE Len(all_answers)
             ins == InsertRows(st.d, "answers", SubSeq(all_answers, j, last_j))
         IN  InsertChunks(Result(ins.d, TRUE, "none", st.respondents,
                                 st.answers + (last_j - j + 1)),
                          all_answers, j + answers_chunk_size, calls + 1, fault)

\* The loop over the batches of respondents: the respondents insert, the
\* building of all_answers, the answers inserts.
RECURSIVE InsertBatches(_, _, _, _, _, _, _, _, _)
InsertBatches(st, json_data, i, qs, qrows, orows, company_id, calls, fault) ==
    IF i > Len(json_data) THEN st
    ELSE IF Raises(calls, fault)
    THEN Result(st.d, FALSE, "respondents", st.respondents, st.answers)
    ELSE LET last_i == IF i + batch_size - 1 < Len(json_data)
                       THEN i + batch_size - 1 ELSE Len(json_data)
             current_batch == SubSeq(json_data, i, last_i)
             ins == InsertRows(st.d, "respondents",
                        [k \in 1..Len(current_batch) |-> [company_id |-> company_id]])
             s1  == Result(ins.d, TRUE, "none",
                           st.respondents + Len(current_batch), st.answers)
             aa  == AllAnswers(current_batch, ins.data, 1, qs, qrows, orows,
                               company_id)
         IN  IF ~aa.ok
             THEN Result(s1.d, FALSE, "internal", s1.respondents, s1.answers)
             ELSE LET ch == InsertChunks(s1, aa.rows, 1, calls + 1, fault)
                  IN  IF ~ch.st.ok THEN ch.st
                      ELSE InsertBatches(ch.st, json_data, i + batch_size, qs,
                                         qrows, orows, company_id, ch.calls,
                                         fault)

\* (mutant) a failure undoes what the call had written
SaveWithRollback(d, json_data, company_id, fault, r) ==
    IF r.ok THEN r ELSE Result(d, FALSE, r.failed, 0, 0)

\* What the function hands back after the try block: the writes made before
\* a failure are not undone.
Returned(d, json_data, company_id, fault, r) == r

\* save_survey_data_batch(supabase, json_data, company_id)
save_survey_data_batch(d, json_data, company_id, fault) ==
    LET qs     == all_questions(json_data)
        qbatch == questions_batch(json_data, company_id)
        s0     == Result(d, TRUE, "none", 0, 0)
        run ==
          IF qbatch # <<>> /\ Raises(0, fault)
          THEN Result(d, FALSE, "questions", 0, 0)
          ELSE
          LET qres   == IF qbatch # <<>>
                        THEN Upsert(d, "questions",
                                    {"company_id", "question_text"}, qbatch)
                        ELSE [d |-> d, data |-> <<>>]
              calls2 == IF qbatch # <<>> THEN 1 ELSE 0
              obatch == options_batch(json_data, qres.data, company_id)
          IN  IF obatch # <<>> /\ Raises(calls2, fault)
              THEN Result(qres.d, FALSE, "options", 0, 0)
              ELSE
              LET ores   == IF obatch # <<>>
                            THEN Upsert(qres.d, "options",
                                        {"question_id", "option_text"}, obatch)
                            ELSE [d |-> qres.d, data |-> <<>>]
                  calls3 == IF obatch # <<>> THEN calls2 + 1 ELSE calls2
              IN  InsertBatches(Result(ores.d, TRUE, "none", 0, 0), json_data,
                                1, qs, qres.data, ores.data, company_id,
                                calls3, fault)
    IN  Returned(d, json_data, company_id, fault, run)

-----------------------------------------------------------------------------
(* The data layer as a state machine: the store starts empty and the       *)
(* functions of database.py are called in any order, with the QA lists the  *)
(* converter produces and a repository call that may raise.                 *)

MaxCalls == 3

CompanyNames == {<<"A">>, <<"B">>}

\* The uploaded tables: an open question and a closed one with one option.
DbLayout == <<Col(ColA, "raw", 1), Col(ColBx, "bin", 2)>>
DbTables ==
    { << <<PyStr(Txt), PyStr(Txt)>> >>,
      << <<NaN, PyStr(Txt)>>, <<PyStr(Txt), NaN>> >>,
      << <<PyStr(Txt), NaN>>, <<NaN, PyStr(Txt)>> >>,
      << <<NaN, NaN>> >> }
JsonInputs == {one_hot_df_to_json(OneHotTable(DbLayout, raws)) : raws \in DbTables}

\* The repository calls one invocation makes at most, by function.
GetCalls == 2
DeleteCalls == 5
SaveCalls == 4

\* What is remembered of the last call: the function, the company id, the
\* boolean returned, the step that failed, whether a repository call raised,
\* the QA lists passed, the rows inserted, and the number of calls so far.
Call(op, company, r, fault, data, n) ==
    [op |-> op, company |-> company, ok |-> r.ok, failed |-> r.failed,
     fault |-> IF r.failed \in {"none", "not found", "internal"} THEN 0 ELSE 1,
     data |-> data, respondents |-> r.respondents, answers |-> r.answers,
     n |-> n]

\* Calls are made while the repository has not failed, MaxCalls at most.
Healthy == last.fault = 0

Init ==
    /\ db = EmptyDb /\ last = NoCall /\ flow = IdleFlow
    /\ conv = NoConv /\ inst = NoInst /\ env = NoEnv

GetCompanyId ==
    \E name \in CompanyNames, fault \in 0..GetCalls :
       LET r == get_company_id(db, name, fault)
       IN  /\ Healthy
           /\ db' = r.d
           /\ last' = Call("get_company_id", r.id,
                           Result(r.d, ~r.raised,
                                  IF r.raised THEN "raised" ELSE "none", 0, 0),
                           fault, <<>>, last.n)
           /\ UNCHANGED <<flow, conv, inst, env>>

DeleteCompanyData ==
    \E name \in CompanyNames, fault \in 0..DeleteCalls :
       LET r == delete_company_data(db, name, fault)
           c == IF CompanyByName(db, name) = {} THEN NoId
                ELSE ById(CompanyByName(db, name))[1].id
       IN  /\ Healthy /\ last.n < MaxCalls
           /\ db' = r.d
           /\ last' = Call("delete", c, r, fault, <<>>, last.n + 1)
           /\ UNCHANGED <<flow, conv, inst, env>>

SaveSurveyDataBatch ==
    \E c \in db.companies, json_data \in JsonInputs, fault \in 0..SaveCalls :
       /\ Healthy /\ last.n < MaxCalls
       /\ LET r == save_survey_data_batch(db, json_data, c.id, fault)
          IN  /\ db' = r.d
              /\ last' = Call("save", c.id, r, fault, json_data, last.n + 1)
       /\ UNCHANGED <<flow, conv, inst, env>>

Next == GetCompanyId \/ DeleteCompanyData \/ SaveSurveyDataBatch

Spec == Init /\ [][Next]_vars

-----------------------------------------------------------------------------
(* pages/02: main, the ingestion flow of one press of the button.  Runs     *)
(* follow each other while the repository has not failed.                   *)

MaxRuns == 2

CheckCalls == 1

\* A run starts: a company name and an uploaded table.
Submit ==
    /\ flow.pc = "idle" /\ Healthy /\ flow.runs < MaxRuns
    /\ \E name \in CompanyNames, table \in DbTables :
          flow' = [IdleFlow EXCEPT !.pc = "get_company_id",
                                   !.company_name = name,
                                   !.uploaded = table,
                                   !.runs = flow.runs + 1]
    /\ UNCHANGED <<db, last, conv, inst, env>>

\* company_id = database.get_company_id(supabase, company_name); an exception
\* ends the run.
FlowGetCompanyId ==
    /\ flow.pc = "get_company_id"
    /\ \E fault \in 0..GetCalls :
          LET r == get_company_id(db, flow.company_name, fault)
          IN  /\ db' = r.d
              /\ last' = Call("get_company_id", r.id,
                              Result(r.d, ~r.raised,
                                     IF r.raised THEN "raised" ELSE "none", 0, 0),
                              fault, <<>>, flow.runs)
              /\ flow' = [flow EXCEPT !.pc = IF r.raised THEN "idle" ELSE "check",
                                      !.company_id = r.id]
    /\ UNCHANGED <<conv, inst, env>>

\* data_exists = database.check_company_data_exists(supabase, company_id)
FlowCheck ==
    /\ flow.pc = "check"
    /\ \E fault \in 0..CheckCalls :
          IF Raises(0, fault)
          THEN /\ flow' = [flow EXCEPT !.pc = "idle"]
               /\ last' = Call("check", flow.company_id,
                               Result(db, FALSE, "raised", 0, 0), fault, <<>>,
                               flow.runs)
          ELSE LET e == check_company_data_exists(db, flow.company_id)
               IN  /\ flow' = [flow EXCEPT !.data_exists = e,
                                           !.pc = IF e THEN "delete" ELSE "convert"]
                   /\ last' = Call("check", flow.company_id,
                                   Result(db, e, "none", 0, 0), fault, <<>>,
                                   flow.runs)
    /\ UNCHANGED <<db, conv, inst, env>>

\* (mutant) the run goes on whatever the deletion returned
AfterDeleteIgnoringFailure(success) == "convert"

\* `if not success: ... return`
AfterDelete(success) == IF success THEN "convert" ELSE "idle"

\* success, message = database.delete_company_data(supabase, company_name)
FlowDelete ==
    /\ flow.pc = "delete"
    /\ \E fault \in 0..DeleteCalls :
          LET r == delete_company_data(db, flow.company_name, fault)
          IN  /\ db' = r.d
              /\ last' = Call("delete", flow.company_id, r, fault, <<>>, flow.runs)
              /\ flow' = [flow EXCEPT !.pc = AfterDelete(r.ok),
                                      !.deleted = IF r.ok THEN "ok" ELSE "failed"]
    /\ UNCHANGED <<conv, inst, env>>

\* json_data = converter.one_hot_df_to_json(survey_df)
FlowConvert ==
    /\ flow.pc = "convert"
    /\ flow' = [flow EXCEPT !.pc = "save",
                  !.json_data = one_hot_df_to_json(OneHotTable(DbLayout, flow.uploaded))]
    /\ UNCHANGED <<db, last, conv, inst, env>>

\* success, message = database.save_survey_data_batch(supabase, json_data,
\* company_id); `if not success: ... return`
FlowSave ==
    /\ flow.pc = "save"
    /\ \E fault \in 0..SaveCalls :
          LET r == save_survey_data_batch(db, flow.json_data, flow.company_id, fault)
          IN  /\ db' = r.d
              /\ last' = Call("save", flow.company_id, r, fault, flow.json_data,
                              flow.runs)
              /\ flow' = [flow EXCEPT !.pc = IF r.ok THEN "analyze" ELSE "idle"]
    /\ UNCHANGED <<conv, inst, env>>

\* The formulas are computed and the report shown; the run ends.
FlowAnalyze ==
    /\ flow.pc = "analyze"
    /\ flow' = [flow EXCEPT !.pc = "idle"]
    /\ UNCHANGED <<db, last, conv, inst, env>>

FlowNext ==
    \/ Submit \/ FlowGetCompanyId \/ FlowCheck \/ FlowDelete
    \/ FlowConvert \/ FlowSave \/ FlowAnalyze

SpecFlow == Init /\ [][FlowNext]_vars

-----------------------------------------------------------------------------
(* survey_analytics.py: the formulas of SurveyAnalytics *)

\* In the texts below a word is one element of the sequence; the words of a
\* column name are joined by "_", those of a question text or of a keyword
\* by " ".
RECURSIVE Join(_, _, _)
Join(ws, sep, i) ==
    IF i > Len(ws) THEN <<>>
    ELSE (IF i > 1 THEN <<sep>> ELSE <<>>) \o <<ws[i]>> \o Join(ws, sep, i + 1)

Phrase(ws) == Join(ws, " ", 1)
Slug(ws) == Join(ws, "_", 1)

\* The ways a formula reads its question.
\*   "options": counts the answers of each option of the question
\*   "open":    reads the open_value of the answers of the question
\*   "either":  the options when there are any, else the free text
\*   "range":   as "either", the total coming from
\*              _count_unique_respondents_for_question
\*   "multimodal": first counts the respondents, then the options
\* required: no option is an error; calls: the options whose answers are
\* fetched ("question": one select by question_id); counts: what the total
\* counts; zero: what a total of zero gives;
\* extra: the keys of a result envelope besides name, question, result and
\* variables.
\* all_of: one keyword of each list the question text is searched for;
\* topic: a column name whose question text holds them.
Formula(name, kind, all_of, topic, required, calls, counts, zero, extra) ==
    [name |-> name, kind |-> kind,
     all_of |-> [k \in 1..Len(all_of) |-> Phrase(all_of[k])],
     topic |-> Slug(topic),
     required |-> required, calls |-> calls, counts |-> counts, zero |-> zero,
     extra |-> extra]

OptionCounts(name, ws, required, counts, extra) ==
    Formula(name, "options", <<ws>>, ws, required, "all", counts, "error", extra)
OpenValues(name, ws, counts) ==
    Formula(name, "open", <<ws>>, ws, FALSE, "all", counts, "error", {})
Either(name, all_of, calls, zero, extra) ==
    Formula(name, "either", all_of, all_of[Len(all_of)], FALSE, calls,
            "respondents", zero, extra)
EitherOn(name, all_of, topic, calls, zero, extra) ==
    Formula(name, "either", all_of, topic, FALSE, calls, "respondents", zero,
            extra)
Ranges(name, ws) ==
    Formula(name, "range", <<ws>>, ws, FALSE, "parsed", "respondents", "result", {})

Formulas ==
    << OptionCounts("calculate_gender_distribution", <<"sexo">>, FALSE, "answers", {}),
       OpenValues("calculate_postal_code_distribution", <<"codigo", "postal">>, "rows"),
       OptionCounts("calculate_age_distribution", <<"edad">>, TRUE, "answers", {}),
       OptionCounts("calculate_workday_type_distribution", <<"horario">>, TRUE, "answers", {}),
       OptionCounts("calculate_telework_distribution", <<"teletrabajo">>, TRUE, "answers", {}),
       OptionCounts("calculate_transport_mode_distribution",
                    <<"modo", "de", "transporte">>, TRUE, "answers", {"result_grouped"}),
       Formula("calculate_multimodal_workers_percentage", "multimodal",
               << <<"combinas">> >>, <<"combinas">>, TRUE, "all",
               "all respondents", "error", {}),
       Ranges("calculate_distance_range_distribution",
              <<"cuántos", "kilómetros", "recorres">>),
       Ranges("calculate_travel_time_distribution",
              <<"cuántos", "minutos", "dedicas">>),
       Either("calculate_business_trips_percentage",
              << <<"otros", "desplazamientos">> >>, "all", "result", {}),
       Either("calculate_business_trips_own_car_percentage",
              << <<"coche", "propio">> >>, "all", "error", {}),
       Either("calculate_engine_type_percentage",
              << <<"tipo", "de", "motor">> >>, "all", "result", {}),
       Either("calculate_ev_purchase_intention_percentage",
              << <<"eléctrico">>, <<"comprarías", "un", "vehículo", "eléctrico">> >>,
              "all", "result", {}),
       Either("calculate_free_parking_percentage",
              << <<"aparcamiento">> >>, "all", "error", {}),
       Either("calculate_no_parking_problems_percentage",
              << <<"dificultades", "para", "aparcar">> >>, "yesno", "error", {}),
       Either("calculate_public_transport_barriers_percentage",
              << <<"barreras">> >>, "question", "error", {"detailed_result"}),
       EitherOn("calculate_public_transport_motivations_percentage",
                << <<"metro">>, <<"ventaja">> >>, <<"ventaja", "del", "metro">>,
                "question", "error", {"detailed_result"}),
       Either("calculate_car_sharing_willingness_percentage",
              << <<"compartir", "coche">> >>, "all", "error", {}),
       Either("calculate_public_transport_lines_awareness_percentage",
              << <<"conoces", "las", "líneas">> >>, "yesno", "error", {}),
       Either("calculate_public_transport_improvement_factors_percentage",
              << <<"factores", "de", "mejora">> >>, "all", "error", {}),
       Either("calculate_cycling_routes_awareness_percentage",
              << <<"carriles", "bici">> >>, "yesno", "error", {}),
       Either("calculate_cycling_improvement_factors_percentage",
              << <<"mejorar", "uso", "bicicleta">> >>, "kept", "error", {}),
       OptionCounts("calculate_department_distribution", <<"departamento">>, TRUE,
                    "answers", {}),
       OptionCounts("calculate_workdays_distribution",
                    <<"días", "que", "trabajas">>, TRUE, "respondents", {}),
       OptionCounts("calculate_transport_combination_distribution", <<"combinas">>,
                    TRUE, "combinations", {}),
       Either("calculate_car_occupancy_distribution",
              << <<"ocupantes">> >>, "all", "error", {}),
       Either("calculate_public_transport_estimated_time_distribution",
              << <<"tiempo", "estimas", "que", "tardarías", "utilizando", "el",
                   "transporte", "público">> >>, "all", "error", {}),
       OpenValues("calculate_public_transport_satisfaction_distribution",
                  <<"satisfaccion">>, "numbers"),
       OptionCounts("calculate_main_transport_mode_during_work_distribution",
                    <<"medio", "de", "transporte", "durante", "la", "jornada">>,
                    TRUE, "answers", {}),
       OptionCounts("calculate_work_trip_frequency_distribution",
                    <<"frecuencia", "de", "desplazamientos">>, TRUE, "answers", {}),
       OpenValues("calculate_average_trip_distance",
                  <<"kilometros", "de", "media", "por", "trayecto">>, "numbers"),
       OptionCounts("calculate_work_trip_reason_distribution",
                    <<"motivo", "desplazamientos", "jornada", "laboral">>, TRUE,
                    "answers", {}),
       OptionCounts("calculate_replaceable_trips_distribution",
                    <<"trayectos", "reemplazables", "por", "videollamada">>, TRUE,
                    "answers", {}),
       OpenValues("calculate_pedestrian_environment_rating",
                  <<"valoracion", "entorno", "peatones">>, "numbers"),
       OpenValues("analyze_open_proposals_for_mobility",
                  <<"propuestas", "para", "mejorar", "la", "movilidad">>, "texts"),
       OptionCounts("calculate_cycling_barriers_percentage",
                    <<"barreras", "al", "uso", "de", "bicicleta">>, TRUE,
                    "respondents", {}) >>

\* The envelope a formula returns: its keys, whether the question was found,
\* the total of valid responses it computed (-1 when it returned before),
\* whether a repository call it issued raised, whether an exception escaped.
Envelope(name, keys, found, total, failed) ==
    [formula |-> name, keys |-> keys, found |-> found, total |-> total,
     failed |-> failed, raised |-> FALSE, total_employees |-> 0, value |-> 0,
     question |-> 0]

ErrKeys == {"name", "error"}
ResKeys(f) == {"name", "question", "result", "variables"} \cup f.extra

\* The except clause of a formula: {name, error}
Failure(f, found) == Envelope(f.name, ErrKeys, found, -1, TRUE)

\* (mutant) the error of a total of zero comes with a result of zeros
OutcomeWithBoth(f, total) ==
    IF total = 0 /\ f.zero = "error"
    THEN Envelope(f.name, ErrKeys \cup {"result"}, TRUE, 0, FALSE)
    ELSE Envelope(f.name, ResKeys(f), TRUE, total, FALSE)

\* The returns of a formula with its valid total known: {name, error} for a
\* total of zero where the formula tests it, else the result envelope.
Outcome(f, total) ==
    IF total = 0 /\ f.zero = "error"
    THEN Envelope(f.name, ErrKeys, TRUE, 0, FALSE)
    ELSE Envelope(f.name, ResKeys(f), TRUE, total, FALSE)

\* The repository fails on one table during a formula, or on none.
Faults == {"none", "questions", "options", "answers", "respondents"}

gender_keywords ==
    << Phrase(<<"género">>),
       Phrase(<<"genero">>),
       Phrase(<<"sexo">>),
       Phrase(<<"gender">>),
       Phrase(<<"sex">>) >>

ev_intention_keywords ==
    << Phrase(<<"previsto", "adquirir">>),
       Phrase(<<"piensas", "comprar">>),
       Phrase(<<"intención", "de", "compra">>),
       Phrase(<<"comprarías", "un", "vehículo", "eléctrico">>),
       Phrase(<<"comprarás", "un", "vehículo", "eléctrico">>),
       Phrase(<<"prevé", "adquirir">>),
       Phrase(<<"previsión", "de", "compra">>),
       Phrase(<<"planeas", "adquirir">>) >>

motivations_keywords ==
    << Phrase(<<"principales", "motivos">>),
       Phrase(<<"por", "qué", "utilizas">>),
       Phrase(<<"por", "qué", "usas">>),
       Phrase(<<"motivo">>),
       Phrase(<<"razón">>),
       Phrase(<<"motivación">>),
       Phrase(<<"incentivo">>),
       Phrase(<<"ventaja">>),
       Phrase(<<"beneficio">>),
       Phrase(<<"factor">>),
       Phrase(<<"favorable">>),
       Phrase(<<"preferencia">>),
       Phrase(<<"elección">>),
       Phrase(<<"decisión", "de", "usar">>) >>

transport_keywords ==
    << Phrase(<<"transporte", "público">>),
       Phrase(<<"autobús">>),
       Phrase(<<"bus">>),
       Phrase(<<"metro">>),
       Phrase(<<"tren">>),
       Phrase(<<"tranvía">>),
       Phrase(<<"cercanías">>) >>

parking_problems_keywords ==
    << Phrase(<<"problemas", "de", "estacionamiento">>),
       Phrase(<<"problemas", "de", "aparcamiento">>),
       Phrase(<<"dificultades", "para", "aparcar">>),
       Phrase(<<"dificultad", "para", "estacionar">>),
       Phrase(<<"problema", "de", "parking">>),
       Phrase(<<"estacionar", "con", "dificultad">>) >>

\* The test of a formula on a question text: the alternatives of the
\* condition, each a sequence of keyword lists of which the text must hold
\* one keyword each.  The lists are in full for the formulas below; of the
\* list of any other formula the model keeps one keyword.
KeywordTest(f) ==
    CASE f.name = "calculate_gender_distribution" -> << <<gender_keywords>> >>
      [] f.name = "calculate_ev_purchase_intention_percentage" ->
            << << <<Phrase(<<"eléctrico">>)>>, ev_intention_keywords >> >>
      [] f.name = "calculate_public_transport_motivations_percentage" ->
            << <<transport_keywords, motivations_keywords>> >>
      [] f.name = "calculate_no_parking_problems_percentage" ->
            << << <<Phrase(<<"problema">>)>>,
                  <<Phrase(<<"aparcamiento">>), Phrase(<<"estacionamiento">>),
                    Phrase(<<"parking">>)>> >>,
               <<parking_problems_keywords>> >>
      [] OTHER -> << [k \in 1..Len(f.all_of) |-> <<f.all_of[k]>>] >>

\* any(keyword in question_text.lower() for keyword in keywords), for every
\* list of one alternative of the test
Matches(f, text) ==
    LET test == KeywordTest(f)
        question_lower == Lower(text)
    IN  \E a \in 1..Len(test) :
            \A k \in 1..Len(test[a]) :
                \E w \in 1..Len(test[a][k]) :
                    Contains(question_lower, test[a][k][w])

FoundQuestions(d, c, f) ==
    {q \in RowsOf(d, "questions", c) : Matches(f, q.question_text)}

OptionsOfQuestion(d, c, q) ==
    {o \in d.options : o.question_id = q.id /\ o.company_id = c}
AnswersOfOptions(d, c, opts) ==
    {a \in d.answers : a.company_id = c /\ \E o \in opts : a.option_id = o.id}
AnswersOfQuestion(d, c, q) ==
    {a \in d.answers : a.company_id = c /\ a.question_id = q.id}
RespondentsOf(answers) == {a.respondent_id : a \in answers}

\* option_text == 'no' or option_text.startswith('no '), and so for 'sí', 'si'
IsYesNo(text) ==
    /\ text # <<>>
    /\ text[1] \in {"sí", "si", "no"}
    /\ Len(text) = 1 \/ text[2] = " "

\* A text that reads as one number.
IsNumber(text) == Len(text) = 1 /\ \E i \in 1..Len(Digit) : Digit[i] = text[1]

\* `if factor_text.lower() in ["ninguno", "nada", "no aplica", "no sabe",
\* "no responde"]: continue`
SkippedFactors ==
    { Phrase(<<"ninguno">>), Phrase(<<"nada">>), Phrase(<<"no", "aplica">>),
      Phrase(<<"no", "sabe">>), Phrase(<<"no", "responde">>) }

\* _extract_distance_value, _extract_time_value: the texts are sequences of
\* characters, a value is the fraction n / d, white space is the blank.
NoValue == [n |-> 0 - 1, d |-> 1]

IsDigit(ch) == \E k \in 1..Len(Digit) : Digit[k] = ch
DigitValue(ch) == (CHOOSE k \in 1..Len(Digit) : Digit[k] = ch) - 1

\* \d* from position i: the position after the digits
RECURSIVE DigitsEnd(_, _)
DigitsEnd(s, i) ==
    IF i <= Len(s) /\ IsDigit(s[i]) THEN DigitsEnd(s, i + 1) ELSE i

\* \s* from position i: the position after the white space
RECURSIVE SpacesEnd(_, _)
SpacesEnd(s, i) ==
    IF i <= Len(s) /\ s[i] = " " THEN SpacesEnd(s, i + 1) ELSE i

\* \d+[.,]?\d* from the digit at position i: the position after the match
NumberEnd(s, i) ==
    LET a == DigitsEnd(s, i)
    IN  IF a <= Len(s) /\ s[a] \in {".", ","} THEN DigitsEnd(s, a + 1) ELSE a

StartsAt(s, i, w) ==
    /\ i + Len(w) - 1 <= Len(s)
    /\ SubSeq(s, i, i + Len(w) - 1) = w

\* re.search(r'(\d+[.,]?\d*)\s*' + unit, s): group 1 of the leftmost match,
\* <<>> when there is none
NumberBefore(s, unit) ==
    LET starts == {i \in 1..Len(s) :
                      /\ IsDigit(s[i])
                      /\ StartsAt(s, SpacesEnd(s, NumberEnd(s, i)), unit)}
    IN  IF starts = {} THEN <<>>
        ELSE LET i == CHOOSE x \in starts : \A y \in starts : x <= y
             IN  SubSeq(s, i, NumberEnd(s, i) - 1)

\* int(digits)
RECURSIVE IntOf(_)
IntOf(ds) ==
    IF ds = <<>> THEN 0
    ELSE 10 * IntOf(SubSeq(ds, 1, Len(ds) - 1)) + DigitValue(ds[Len(ds)])

RECURSIVE Pow10(_)
Pow10(k) == IF k = 0 THEN 1 ELSE 10 * Pow10(k - 1)

\* float(value_str.replace(',', '.')) of a match of \d+[.,]?\d*
Float(value_str) ==
    LET a == DigitsEnd(value_str, 1)
        frac == SubSeq(value_str, a + 1, Len(value_str))
    IN  [n |-> IntOf(SubSeq(value_str, 1, a - 1) \o frac), d |-> Pow10(Len(frac))]

\* re.findall(r'(\d+[.,]?\d*)', s)
RECURSIVE Numbers(_, _)
Numbers(s, i) ==
    IF i > Len(s) THEN <<>>
    ELSE IF IsDigit(s[i])
    THEN <<SubSeq(s, i, NumberEnd(s, i) - 1)>> \o Numbers(s, NumberEnd(s, i))
    ELSE Numbers(s, i + 1)

\* The words of a range pattern, \s* between them, matched at position i.
RECURSIVE WordsAt(_, _, _, _)
WordsAt(s, i, words, k) ==
    IF k > Len(words) THEN TRUE
    ELSE /\ StartsAt(s, i, words[k])
         /\ WordsAt(s, SpacesEnd(s, i + Len(words[k])), words, k + 1)

\* re.search(pattern, s) for a range pattern
SearchWords(s, words) == \E i \in 1..Len(s) : WordsAt(s, i, words, 1)

\* The first pattern of a list that the text matches, 0 when none does.
FirstOf(hits) == IF hits = {} THEN 0 ELSE CHOOSE x \in hits : \A y \in hits : x <= y

FirstUnit(s, units) ==
    FirstOf({k \in 1..Len(units) : NumberBefore(s, units[k]) # <<>>})
FirstRange(s, patterns) ==
    FirstOf({k \in 1..Len(patterns) : SearchWords(s, patterns[k].words)})

km_patterns ==
    << <<"k","m">>,
       <<"k","i","l","ó","m","e","t","r","o","s">>,
       <<"k","i","l","o","m","e","t","r","o","s">>,
       <<"k","i","l","ó","m","e","t","r","o">>,
       <<"k","i","l","o","m","e","t","r","o">> >>

distance_range_patterns ==
    << [words |-> << <<"m","e","n","o","s">>, <<"d","e">>, <<"5">> >>, value |-> [n |-> 3, d |-> 1]],
       [words |-> << <<"e","n","t","r","e">>, <<"6">>, <<"y">>, <<"1","5">> >>, value |-> [n |-> 105, d |-> 10]],
       [words |-> << <<"e","n","t","r","e">>, <<"1","6">>, <<"y">>, <<"2","5">> >>, value |-> [n |-> 205, d |-> 10]],
       [words |-> << <<"e","n","t","r","e">>, <<"2","6">>, <<"y">>, <<"3","5">> >>, value |-> [n |-> 305, d |-> 10]],
       [words |-> << <<"m","á","s">>, <<"d","e">>, <<"3","5">> >>, value |-> [n |-> 40, d |-> 1]] >>

\* _extract_distance_value(text_value)
extract_distance_value(text_value) ==
    IF text_value = Null \/ text_value = <<>> THEN NoValue
    ELSE LET text == Lower(text_value)
             km == FirstUnit(text, km_patterns)
             numbers == Numbers(text, 1)
             range == FirstRange(text, distance_range_patterns)
         IN  IF km # 0 THEN Float(NumberBefore(text, km_patterns[km]))
             ELSE IF Len(numbers) = 1 THEN Float(numbers[1])
             ELSE IF range # 0 THEN distance_range_patterns[range].value
             ELSE NoValue

min_patterns ==
    << <<"m","i","n">>,
       <<"m","i","n","u","t","o","s">>,
       <<"m","i","n","u","t","o">> >>

hour_patterns ==
    << <<"h">>,
       <<"h","o","r","a">>,
       <<"h","o","r","a","s">> >>

time_range_patterns ==
    << [words |-> << <<"m","e","n","o","s">>, <<"d","e">>, <<"1","5">> >>, value |-> [n |-> 10, d |-> 1]],
       [words |-> << <<"e","n","t","r","e">>, <<"1","6">>, <<"y">>, <<"3","0">> >>, value |-> [n |-> 23, d |-> 1]],
       [words |-> << <<"e","n","t","r","e">>, <<"3","1">>, <<"y">>, <<"4","5">> >>, value |-> [n |-> 38, d |-> 1]],
       [words |-> << <<"e","n","t","r","e">>, <<"4","6">>, <<"y">>, <<"6","0">> >>, value |-> [n |-> 53, d |-> 1]],
       [words |-> << <<"m","á","s">>, <<"d","e">>, <<"6","0">> >>, value |-> [n |-> 75, d |-> 1]] >>

\* The maximal runs of digits of s from position i on.
RECURSIVE DigitRuns(_, _)
DigitRuns(s, i) ==
    IF i > Len(s) THEN <<>>
    ELSE IF IsDigit(s[i])
    THEN <<[from |-> i, to |-> DigitsEnd(s, i) - 1]>> \o DigitRuns(s, DigitsEnd(s, i))
    ELSE DigitRuns(s, i + 1)

\* re.search(r'(\d+)[^\d]*hora[^\d]*(\d+)[^\d]*minuto', s): two runs of
\* digits that follow each other, "hora" between them and "minuto" before
\* the next digit; hours * 60 + minutes of the leftmost match, else NoValue.
combined_pattern(s) ==
    LET runs == DigitRuns(s, 1)
        After(k) == SubSeq(s, runs[k].to + 1,
                           IF k < Len(runs) THEN runs[k + 1].from - 1 ELSE Len(s))
        k == FirstOf({j \in 1..(Len(runs) - 1) :
                         /\ Contains(After(j), <<"h","o","r","a">>)
                         /\ Contains(After(j + 1), <<"m","i","n","u","t","o">>)})
    IN  IF k = 0 THEN NoValue
        ELSE [n |-> IntOf(SubSeq(s, runs[k].from, runs[k].to)) * 60
                      + IntOf(SubSeq(s, runs[k + 1].from, runs[k + 1].to)),
              d |-> 1]

\* _extract_time_value(text_value)
extract_time_value(text_value) ==
    IF text_value = Null \/ text_value = <<>> THEN NoValue
    ELSE LET text == Lower(text_value)
             min == FirstUnit(text, min_patterns)
             hour == FirstUnit(text, hour_patterns)
             hours == Float(NumberBefore(text, hour_patterns[hour]))
             numbers == Numbers(text, 1)
             range == FirstRange(text, time_range_patterns)
         IN  IF min # 0 THEN Float(NumberBefore(text, min_patterns[min]))
             ELSE IF hour # 0 THEN [n |-> hours.n * 60, d |-> hours.d]
             ELSE IF combined_pattern(text) # NoValue THEN combined_pattern(text)
             ELSE IF Len(numbers) = 1 THEN Float(numbers[1])
             ELSE IF range # 0 THEN time_range_patterns[range].value
             ELSE NoValue

distance_ranges ==
    << [name |-> <<"M","e","n","o","s"," ","d","e"," ","5"," ","k","m">>,
        min |-> 0, max |-> 5, unbounded |-> FALSE],
       [name |-> <<"E","n","t","r","e"," ","6"," ","y"," ","1","5"," ","k","m">>,
        min |-> 6, max |-> 15, unbounded |-> FALSE],
       [name |-> <<"E","n","t","r","e"," ","1","6"," ","y"," ","2","5"," ","k","m">>,
        min |-> 16, max |-> 25, unbounded |-> FALSE],
       [name |-> <<"E","n","t","r","e"," ","2","6"," ","y"," ","3","5"," ","k","m">>,
        min |-> 26, max |-> 35, unbounded |-> FALSE],
       [name |-> <<"M","á","s"," ","d","e"," ","3","5"," ","k","m">>,
        min |-> 36, max |-> 36, unbounded |-> TRUE] >>

time_ranges ==
    << [name |-> <<"M","e","n","o","s"," ","d","e"," ","1","5"," ","m","i","n","u","t","o","s">>,
        min |-> 0, max |-> 15, unbounded |-> FALSE],
       [name |-> <<"E","n","t","r","e"," ","1","6"," ","y"," ","3","0"," ","m","i","n","u","t","o","s">>,
        min |-> 16, max |-> 30, unbounded |-> FALSE],
       [name |-> <<"E","n","t","r","e"," ","3","1"," ","y"," ","4","5"," ","m","i","n","u","t","o","s">>,
        min |-> 31, max |-> 45, unbounded |-> FALSE],
       [name |-> <<"E","n","t","r","e"," ","4","6"," ","y"," ","6","0"," ","m","i","n","u","t","o","s">>,
        min |-> 46, max |-> 60, unbounded |-> FALSE],
       [name |-> <<"M","á","s"," ","d","e"," ","6","0"," ","m","i","n","u","t","o","s">>,
        min |-> 61, max |-> 61, unbounded |-> TRUE] >>

RangesOf(f) ==
    IF f.name = "calculate_distance_range_distribution" THEN distance_ranges
    ELSE time_ranges

ValueOfText(f, text) ==
    IF f.name = "calculate_distance_range_distribution"
    THEN extract_distance_value(text)
    ELSE extract_time_value(text)

\* `if range_info["min"] <= value <= range_info["max"]`
InRange(range_info, value) ==
    /\ range_info.min * value.d <= value.n
    /\ range_info.unbounded \/ value.n <= range_info.max * value.d

\* The range a text is counted in: the first one that holds its value; 0
\* when the text has no value or no range holds it.
matching_range(f, text) ==
    LET value == ValueOfText(f, text)
    IN  IF value = NoValue THEN 0
        ELSE FirstOf({k \in 1..Len(RangesOf(f)) : InRange(RangesOf(f)[k], value)})

\* The options whose answers the formula fetches.
CalledOptions(f, opts) ==
    CASE f.calls = "yesno"  -> {o \in opts : IsYesNo(Lower(Strip(o.option_text)))}
      [] f.calls = "kept"   -> {o \in opts :
                                   Lower(Strip(o.option_text)) \notin SkippedFactors}
      [] OTHER              -> opts

\* ['sí', 'si', 'yes', 'true', '1']: each word by its characters, and as the
\* one element it is in a text that is held word by word.
affirmative_words ==
    { <<"s","í">>, <<"s","i">>, <<"y","e","s">>, <<"t","r","u","e">>, <<"1">>,
      <<"sí">>, <<"si">>, <<"yes">>, <<"true">> }

\* option_text = option['option_text'].lower().strip();
\* any(word in option_text for word in ['sí', 'si', 'yes', 'true', '1'])
IsAffirmative(text) ==
    LET option_text == Strip(Lower(text))
    IN  \E word \in affirmative_words : Contains(option_text, word)

\* calculate_business_trips_percentage, the loop over options.data:
\* `yes_count = answer_count` for an affirmative option that has answers,
\* whose respondents are added to mission_respondents;
\* `no_count = answer_count` for an option that is not affirmative.
RECURSIVE business_trips_counts(_, _, _, _, _)
business_trips_counts(d, c, options, i, st) ==
    IF i > Len(options) THEN st
    ELSE LET answers == AnswersOfOptions(d, c, {options[i]})
             answer_count == Cardinality(answers)
             next ==
                IF IsAffirmative(options[i].option_text) /\ answer_count > 0
                THEN [st EXCEPT !.yes_count = answer_count,
                                !.mission_respondents = @ \cup RespondentsOf(answers)]
                ELSE IF ~IsAffirmative(options[i].option_text)
                THEN [st EXCEPT !.no_count = answer_count]
                ELSE st
         IN  business_trips_counts(d, c, options, i + 1, next)

\* The counts of calculate_business_trips_percentage for a question with
\* options.
business_trips(d, c, opts) ==
    business_trips_counts(d, c, ById(opts), 1,
        [yes_count |-> 0, no_count |-> 0, mission_respondents |-> {}])

\* The total of valid responses of a formula that reads options.
OptionsTotal(d, c, f, q, opts) ==
    LET answers == IF f.calls = "question" THEN AnswersOfQuestion(d, c, q)
                   ELSE AnswersOfOptions(d, c, CalledOptions(f, opts))
        counts == business_trips(d, c, opts)
    IN  CASE f.name = "calculate_business_trips_percentage" ->
                counts.yes_count + counts.no_count
          [] f.counts = "answers" -> Cardinality(answers)
          [] f.counts = "combinations" ->
                Cardinality({r \in RespondentsOf(answers) :
                    Cardinality({a \in answers : a.respondent_id = r}) > 1})
          [] f.counts = "all respondents" -> Cardinality(RowsOf(d, "respondents", c))
          [] OTHER -> Cardinality(RespondentsOf(answers))

\* The total of valid responses of a formula that reads open values.
OpenTotal(f, answers) ==
    CASE f.counts = "rows" -> Cardinality(RespondentsOf(answers))
      [] f.counts = "numbers" ->
            Cardinality({a \in answers : /\ a.open_value # Null
                                         /\ IsNumber(Strip(a.open_value))})
      [] OTHER ->
            Cardinality({a \in answers : /\ a.open_value # Null
                                         /\ Strip(a.open_value) # <<>>
                                         /\ Lower(Strip(a.open_value)) # <<"n","a","n">>})

\* get_total_responses: the count of respondents, 0 when the call raises
get_total_responses(d, c, fault) ==
    IF fault = "respondents" THEN [count |-> 0, failed |-> TRUE]
    ELSE [count |-> Cardinality(RowsOf(d, "respondents", c)), failed |-> FALSE]

\* _count_unique_respondents_for_question: 0 when one of its calls raises
count_unique_respondents_for_question(d, c, q, fault) ==
    LET opts == OptionsOfQuestion(d, c, q)
    IN  IF fault = "options" THEN [count |-> 0, failed |-> TRUE]
        ELSE IF fault = "answers" THEN [count |-> 0, failed |-> TRUE]
        ELSE IF opts = {}
        THEN [count |-> Cardinality(RespondentsOf(AnswersOfQuestion(d, c, q))),
              failed |-> FALSE]
        ELSE [count |-> Cardinality(RespondentsOf(AnswersOfOptions(d, c, opts))),
              failed |-> FALSE]

\* round(x, 2) for x = 100 * n / d with n >= 0 and d > 0, in hundredths: the
\* nearest hundredth, the even one of two that are equally near.
Round2(n, d) ==
    LET q == (10000 * n) \div d
        r == (10000 * n) % d
    IN  IF 2 * r > d THEN q + 1
        ELSE IF 2 * r < d THEN q
        ELSE IF q % 2 = 0 THEN q ELSE q + 1

\* calculate_participation_rate(total_employees); value is the result in
\* hundredths.
calculate_participation_rate(d, c, total_employees, fault) ==
    LET responses == get_total_responses(d, c, fault)
        e == IF total_employees <= 0
             THEN Envelope("calculate_participation_rate",
                           {"name", "result", "error"}, FALSE, -1, FALSE)
             ELSE Envelope("calculate_participation_rate",
                           {"name", "result", "variables"}, FALSE,
                           responses.count, responses.failed)
    IN  [e EXCEPT !.total_employees = total_employees,
                  !.value = IF total_employees <= 0 THEN 0
                            ELSE Round2(responses.count, total_employees)]

\* get_total_questions
get_total_questions(d, c, fault) ==
    IF fault = "questions"
    THEN Envelope("get_total_questions", ErrKeys, FALSE, -1, TRUE)
    ELSE Envelope("get_total_questions", {"name", "result"}, FALSE,
                  Cardinality(RowsOf(d, "questions", c)), FALSE)

\* What the select of the column response_value can give: the column is
\* not one the data layer writes.  "absent": the call raises; "raises": the
\* values break the processing; "unmatched": no value is counted; "counted":
\* every respondent is counted.
FreeText == {"absent", "raises", "unmatched", "counted"}

\* A formula that counts the answers of the options of its question.
OptionsPath(d, c, f, q, fault) ==
    IF fault = "options" THEN Failure(f, TRUE)
    ELSE LET opts == OptionsOfQuestion(d, c, q)
         IN  IF opts = {} /\ f.required
             THEN Envelope(f.name, ErrKeys, TRUE, -1, FALSE)
             ELSE IF opts # {} /\ fault = "answers" THEN Failure(f, TRUE)
             ELSE Outcome(f, OptionsTotal(d, c, f, q, opts))

\* A formula that reads the open values of the answers of its question.
OpenPath(d, c, f, q, fault) ==
    IF fault = "answers" THEN Failure(f, TRUE)
    ELSE Outcome(f, OpenTotal(f, AnswersOfQuestion(d, c, q)))

\* A formula that reads the options when there are any, else the free text.
EitherPath(d, c, f, q, fault, rv) ==
    IF fault = "options" THEN Failure(f, TRUE)
    ELSE LET opts == OptionsOfQuestion(d, c, q)
             rows == AnswersOfQuestion(d, c, q)
         IN  IF opts # {}
             THEN IF fault = "answers"
                     /\ (f.calls = "question" \/ CalledOptions(f, opts) # {})
                  THEN Failure(f, TRUE)
                  ELSE Outcome(f, OptionsTotal(d, c, f, q, opts))
             ELSE IF fault = "answers" \/ rv = "absent" THEN Failure(f, TRUE)
             ELSE IF rv = "raises" /\ rows # {}
             THEN Envelope(f.name, ErrKeys, TRUE, -1, FALSE)
             ELSE IF rv = "counted"
             THEN Outcome(f, Cardinality(RespondentsOf(rows)))
             ELSE Outcome(f, 0)

\* calculate_distance_range_distribution, calculate_travel_time_distribution:
\* the ranges are filled from the open values or from the options that read
\* as a number; the total is the helper's count, and a result is returned
\* whatever the total.
RangePath(d, c, f, q, fault) ==
    IF fault = "options" THEN Failure(f, TRUE)
    ELSE LET opts == OptionsOfQuestion(d, c, q)
             total == count_unique_respondents_for_question(d, c, q, fault)
             counted == {o \in opts : matching_range(f, o.option_text) # 0}
         IN  IF fault = "answers" /\ (opts = {} \/ counted # {})
             THEN Failure(f, TRUE)
             ELSE Envelope(f.name, ResKeys(f), TRUE, total.count, total.failed)

\* (mutant) a question that is not found gives a result of zeros
NotFoundAsResult(f) == Envelope(f.name, ResKeys(f), FALSE, 0, FALSE)

\* `if not ..._question_id: return {name, error}`
NotFound(f) == Envelope(f.name, ErrKeys, FALSE, -1, FALSE)

\* (mutant) a search without `break`: the last question that matches
LastQuestion(found) == ById(found)[Cardinality(found)]

\* The loop over questions.data stops at the first question that matches.
FirstQuestion(found) == ById(found)[1]

\* One formula of the list: the select of the questions, the search for the
\* question, then the path of its kind; the whole body is in a try block.
Calculate(d, c, f, fault, rv) ==
    IF f.kind = "multimodal" /\ fault = "respondents" THEN Failure(f, FALSE)
    ELSE IF f.kind = "multimodal" /\ RowsOf(d, "respondents", c) = {}
    THEN Envelope(f.name, ErrKeys, FALSE, 0, FALSE)
    ELSE IF fault = "questions" THEN Failure(f, FALSE)
    ELSE LET found == FoundQuestions(d, c, f)
             q == FirstQuestion(found)
             e == CASE f.kind = "open"   -> OpenPath(d, c, f, q, fault)
                    [] f.kind = "either" -> EitherPath(d, c, f, q, fault, rv)
                    [] f.kind = "range"  -> RangePath(d, c, f, q, fault)
                    [] OTHER             -> OptionsPath(d, c, f, q, fault)
         IN  IF found = {} THEN NotFound(f)
             ELSE [e EXCEPT !.question = q.id]

\* self.mission_respondents after a formula: calculate_multimodal_workers_
\* percentage and calculate_business_trips_percentage set it on their way to
\* the result.
MissionAfter(d, c, f, e, rv, old) ==
    IF "result" \notin e.keys THEN old
    ELSE LET q == FirstQuestion(FoundQuestions(d, c, f))
             opts == OptionsOfQuestion(d, c, q)
         IN  CASE f.name = "calculate_multimodal_workers_percentage" ->
                    [old EXCEPT !.has_mission = TRUE,
                                !.mission_respondents =
                                    RespondentsOf(AnswersOfOptions(d, c, opts))]
               [] f.name = "calculate_business_trips_percentage" ->
                    [old EXCEPT !.has_mission = TRUE,
                                !.mission_respondents =
                                    IF opts # {}
                                    THEN business_trips(d, c, opts).mission_respondents
                                    ELSE IF rv = "counted"
                                    THEN RespondentsOf(AnswersOfQuestion(d, c, q))
                                    ELSE {}]
               [] OTHER -> old

-----------------------------------------------------------------------------
(* The analytics as a state machine: a company's survey of one question is  *)
(* stored (the save may fail part-way), a SurveyAnalytics is built for the  *)
(* company and one of its formulas is computed.                             *)

MaxAnRows == 2
MaxEmployees == 3

AnCompany == <<"A">>
Five == <<"5">>
Yes == <<"sí">>

Topics == {Formulas[i].topic : i \in 1..Len(Formulas)} \cup {Slug(<<"otra", "pregunta">>)}

\* The uploaded table: one question, open or closed with the option "sí".
AnLayout(topic, kind) ==
    IF kind = "open" THEN <<Col(topic, "open", 1)>>
    ELSE <<Col(topic \o DUnder \o Yes, "bin", 1)>>

AnTables == UNION {[1..n -> [1..1 -> {NaN, PyStr(Five)}]] : n \in 1..MaxAnRows}

AnInputs ==
    {one_hot_df_to_json(OneHotTable(AnLayout(topic, kind), raws)) :
        topic \in Topics, kind \in {"open", "bin"}, raws \in AnTables}

AnGetCompanyId ==
    /\ db.companies = {}
    /\ LET r == get_company_id(db, AnCompany, 0)
       IN  /\ db' = r.d
           /\ last' = Call("get_company_id", r.id,
                           Result(r.d, TRUE, "none", 0, 0), 0, <<>>, 0)
    /\ UNCHANGED <<flow, conv, inst, env>>

\* The survey is saved once, before the analytics are built, for a company
\* that has nothing stored.
AnSave ==
    \E c \in db.companies, json_data \in AnInputs, fault \in 0..SaveCalls :
       /\ last.op # "save" /\ inst.company_id = NoId
       /\ ~check_company_data_exists(db, c.id)
       /\ RowsOf(db, "respondents", c.id) = {}
       /\ LET r == save_survey_data_batch(db, json_data, c.id, fault)
          IN  /\ db' = r.d
              /\ last' = Call("save", c.id, r, fault, <<>>, 1)
       /\ UNCHANGED <<flow, conv, inst, env>>

\* SurveyAnalytics(supabase, company_id)
NewAnalytics ==
    /\ inst.company_id = NoId
    /\ \E c \in db.companies : inst' = [NoInst EXCEPT !.company_id = c.id]
    /\ UNCHANGED <<db, last, flow, conv, env>>

Computing == inst.company_id # NoId /\ env.formula = "none"

CalculateFormula ==
    /\ Computing
    /\ \E i \in 1..Len(Formulas), fault \in Faults :
       \E rv \in IF Formulas[i].kind = "either" THEN FreeText ELSE {"absent"} :
          LET f == Formulas[i]
              e == Calculate(db, inst.company_id, f, fault, rv)
          IN  /\ env' = e
              /\ inst' = MissionAfter(db, inst.company_id, f, e, rv, inst)
    /\ UNCHANGED <<db, last, flow, conv>>

CalculateParticipationRate ==
    /\ Computing
    /\ \E total_employees \in -1..MaxEmployees, fault \in Faults :
          env' = calculate_participation_rate(db, inst.company_id,
                                              total_employees, fault)
    /\ UNCHANGED <<db, last, flow, conv, inst>>

GetTotalQuestions ==
    /\ Computing
    /\ \E fault \in Faults :
          env' = get_total_questions(db, inst.company_id, fault)
    /\ UNCHANGED <<db, last, flow, conv, inst>>

AnNext ==
    \/ AnGetCompanyId \/ AnSave \/ NewAnalytics
    \/ CalculateFormula \/ CalculateParticipationRate \/ GetTotalQuestions

SpecAn == Init /\ [][AnNext]_vars

-----------------------------------------------------------------------------
(* survey_converter.py: slugify *)

Letters == Range(LowerCase) \cup Range(UpperCase)
                \cup {"á", "é", "í", "ó", "ú", "ñ", "ü"}

\* A character the pattern \w matches: a letter, a digit or the underscore.
IsWordChar(c) == c \in Letters \cup Range(Digit) \cup {"_"}

\* re.sub(r"\W+", "_", s): every run of characters that \w does not match
\* becomes one underscore.
RECURSIVE SubNonWord(_, _, _)
SubNonWord(s, i, inRun) ==
    IF i > Len(s) THEN <<>>
    ELSE IF IsWordChar(s[i]) THEN <<s[i]>> \o SubNonWord(s, i + 1, FALSE)
    ELSE (IF inRun THEN <<>> ELSE <<"_">>) \o SubNonWord(s, i + 1, TRUE)

\* s.strip("_")
StripUnder(s) ==
    IF \A i \in 1..Len(s) : s[i] = "_" THEN <<>>
    ELSE LET a == CHOOSE i \in 1..Len(s) :
                    s[i] # "_" /\ \A j \in 1..(i - 1) : s[j] = "_"
             b == CHOOSE i \in 1..Len(s) :
                    s[i] # "_" /\ \A j \in (i + 1)..Len(s) : s[j] = "_"
         IN  SubSeq(s, a, b)

\* s[:n]
Slice(s, n) ==
    IF n >= 0 THEN SubSeq(s, 1, IF n < Len(s) THEN n ELSE Len(s))
    ELSE SubSeq(s, 1, Len(s) + n)

\* slugify(text, maxlen): lower-case, replace, strip, then truncate.
slugify(text, maxlen) ==
    Slice(StripUnder(SubNonWord(Lower(text), 1, FALSE)), maxlen)

-----------------------------------------------------------------------------
(* slugify as a state machine: a text and a maxlen are given, the text is   *)
(* slugified, and the slug is slugified again.                              *)

MaxTextLen == 3
MaxSlugLen == 2

SlugChars == {"a", "B", " ", "_"}
SlugTexts == UNION {[1..n -> SlugChars] : n \in 0..MaxTextLen}

SlugInit ==
    /\ \E text \in SlugTexts, maxlen \in 0..MaxSlugLen :
          conv = [stage |-> "text", text |-> text, maxlen |-> maxlen,
                  once |-> <<>>, twice |-> <<>>]
    /\ db = EmptyDb /\ last = NoCall /\ flow = IdleFlow
    /\ inst = NoInst /\ env = NoEnv

Slugify ==
    /\ conv.stage = "text"
    /\ conv' = [conv EXCEPT !.stage = "slug",
                             !.once = slugify(conv.text, conv.maxlen)]
    /\ UNCHANGED <<db, last, flow, inst, env>>

SlugifyAgain ==
    /\ conv.stage = "slug"
    /\ conv' = [conv EXCEPT !.stage = "slug of slug",
                             !.twice = slugify(conv.once, conv.maxlen)]
    /\ UNCHANGED <<db, last, flow, inst, env>>

SlugNext == Slugify \/ SlugifyAgain

SpecSlug == SlugInit /\ [][SlugNext]_vars

-----------------------------------------------------------------------------
(* survey_converter.py: load_surveymonkey_one_hot.  The raw CSV is read as  *)
(* text (dtype=object): its first row holds the question wordings, its      *)
(* second row the option labels, the others one respondent each; an empty   *)
(* cell is NaN.                                                             *)

DefaultMaxlen == 1000

OpenEnded == <<"o","p","e","n","-","e","n","d","e","d"," ","r","e","s","p","o","n","s","e">>

OtherHeads == << <<"o","t","r","o"," ","(","e","s","p","e","c","i","f","i","q","u","e",")">>,
                 <<"e","s","p","e","c","i","f","i","q","u","e">>,
                 <<"a","ñ","a","d","e"," ","i","n","f","o","r","m","a","c","i","ó","n">>,
                 <<"o","t","h","e","r"," ","(","p","l","e","a","s","e"," ","s","p","e","c","i","f","y",")">> >>

\* any(keyword in str(option_row[idx]).lower() for keyword in [...])
IsOtherHead(label) ==
    \E k \in 1..Len(OtherHeads) : Contains(Lower(label), OtherHeads[k])

\* One iteration of the loop over the raw columns (lines 50-84).
LoadStep(raw, idx, st) ==
    LET q == raw.questions[idx]
        label == str(raw.option_row[idx])
        option_label == slugify(label, DefaultMaxlen)
    IN  IF notna(q)
        THEN LET cur == slugify(str(q), DefaultMaxlen)
                 order == IF \E k \in 1..Len(st.order) : st.order[k] = cur
                          THEN st.order ELSE Append(st.order, cur)
             IN  IF Lower(label) = OpenEnded
                 THEN [current |-> Some(cur), order |-> order,
                       ordered |-> Append(st.ordered, Col(cur, "open", idx))]
                 ELSE [current |-> Some(cur), order |-> order,
                       ordered |-> Append(st.ordered,
                                     Col(cur \o DUnder \o option_label, "bin", idx))]
        ELSE IF Truthy(st.current)
        THEN LET binary_name == st.current.v \o DUnder \o option_label
             IN  IF IsOtherHead(label)
                 THEN [st EXCEPT !.ordered = @ \o
                          << Col(binary_name, "bin", idx),
                             Col(binary_name \o TextSuffix, "text", idx) >>]
                 ELSE [st EXCEPT !.ordered = Append(@, Col(binary_name, "bin", idx))]
        ELSE st

RECURSIVE LoadLoop(_, _, _)
LoadLoop(raw, idx, st) ==
    IF idx > Len(raw.questions) THEN st
    ELSE LoadLoop(raw, idx + 1, LoadStep(raw, idx, st))

\* Lines 89-94: the columns of each question, in the order of the questions.
RECURSIVE ReorderFrom(_, _, _)
ReorderFrom(order, ordered, k) ==
    IF k > Len(order) THEN <<>>
    ELSE LET Mine(col) == \/ col.name = order[k]
                          \/ StartsWith(col.name, order[k] \o DUnder)
         IN  SelectSeq(ordered, Mine) \o ReorderFrom(order, ordered, k + 1)

NanSuffix == DUnder \o <<"n", "a", "n">>

\* Lines 89-101: reorder, keep what the reordering missed, drop "...__nan".
ReorderedColumns(st) ==
    LET reordered == ReorderFrom(st.order, st.ordered, 1)
        Missed(col) == \A k \in 1..Len(reordered) : reordered[k].name # col.name
        NotNan(col) == ~EndsWith(col.name, NanSuffix)
    IN  SelectSeq(reordered \o SelectSeq(st.ordered, Missed), NotNan)

\* df[name] after the loop: the last assignment to that name.
LoadedRow(ordered, cols, rawrow) ==
    [name \in {cols[i].name : i \in 1..Len(cols)} |->
        LET c == CHOOSE i \in 1..Len(ordered) :
                    /\ ordered[i].name = name
                    /\ \A j \in (i + 1)..Len(ordered) : ordered[j].name # name
        IN  OneHotCell(ordered[c].kind, rawrow[ordered[c].src])]

load_surveymonkey_one_hot(raw) ==
    LET st == LoadLoop(raw, 1, [current |-> None, order |-> <<>>, ordered |-> <<>>])
        cols == ReorderedColumns(st)
    IN  [columns |-> [i \in 1..Len(cols) |-> cols[i].name],
         rows    |-> [r \in 1..Len(raw.rows) |-> LoadedRow(st.ordered, cols, raw.rows[r])]]

-----------------------------------------------------------------------------
(* The loader and the converter as a state machine: a raw CSV is loaded     *)
(* into the one-hot table, which one_hot_df_to_json converts.               *)

OtherHead == <<"O","t","h","e","r"," ","(","p","l","e","a","s","e"," ","s","p","e","c","i","f","y",")">>
Carpool == <<"C","a","r","p","o","o","l">>

\* A multi-select question "Mode" with the options "Car" and "Other (please
\* specify)", followed by an open question or by a column without label;
\* the "other" option is a continuation column or the question's own column.
RawHeaders ==
    { [questions  |-> <<PyStr(<<"M","o","d","e">>), NaN, PyStr(<<"W","h","y">>)>>,
       option_row |-> <<PyStr(<<"C","a","r">>), PyStr(OtherHead),
                        PyStr(<<"O","p","e","n","-","E","n","d","e","d"," ","R","e","s","p","o","n","s","e">>)>>],
      [questions  |-> <<PyStr(<<"M","o","d","e">>), NaN, NaN>>,
       option_row |-> <<PyStr(OtherHead), PyStr(<<"C","a","r">>), NaN>>] }

\* The cells a respondent can leave under a label: free text (possibly white
\* space only) under the "other" option, a text elsewhere, or nothing.
RawCells(label) ==
    IF label = PyStr(OtherHead) THEN {NaN, PyStr(Carpool), PyStr(Blank)}
    ELSE IF notna(label) THEN {NaN, PyStr(Txt)}
    ELSE {NaN}

RawCsvRows(h) ==
    {r \in [1..Len(h.option_row) -> {NaN, PyStr(Carpool), PyStr(Blank), PyStr(Txt)}] :
        \A i \in 1..Len(h.option_row) : r[i] \in RawCells(h.option_row[i])}

RawCsvs ==
    { [questions |-> h.questions, option_row |-> h.option_row, rows |-> rows] :
        h \in RawHeaders,
        rows \in UNION {[1..n -> UNION {RawCsvRows(g) : g \in RawHeaders}] : n \in 1..MaxRows} }

LoadInit ==
    /\ \E raw \in RawCsvs :
          /\ \A r \in 1..Len(raw.rows) :
                \A i \in 1..Len(raw.option_row) :
                    raw.rows[r][i] \in RawCells(raw.option_row[i])
          /\ conv = [stage |-> "raw", df |-> NoTable, groups |-> <<>>,
                     out |-> <<>>, raw |-> raw]
    /\ db = EmptyDb /\ last = NoCall /\ flow = IdleFlow
    /\ inst = NoInst /\ env = NoEnv

Load ==
    /\ conv.stage = "raw"
    /\ conv' = [conv EXCEPT !.stage = "input",
                             !.df = load_surveymonkey_one_hot(conv.raw)]
    /\ UNCHANGED <<db, last, flow, inst, env>>

LoadNext == Load \/ Convert

SpecLoad == LoadInit /\ [][LoadNext]_vars

-----------------------------------------------------------------------------
(* survey_analytics.py: the figures of calculate_postal_code_distribution.  *)
(* A dict is a sequence of [key, val] in insertion order; a percentage is   *)
(* held in hundredths.                                                      *)

HasKey(dict, key) == \E k \in 1..Len(dict) : dict[k].key = key
ValueOf(dict, key) == dict[CHOOSE k \in 1..Len(dict) : dict[k].key = key].val

\* dict[key] = val
DictSet(dict, key, val) ==
    IF HasKey(dict, key)
    THEN [k \in 1..Len(dict) |->
            IF dict[k].key = key THEN [key |-> key, val |-> val] ELSE dict[k]]
    ELSE Append(dict, [key |-> key, val |-> val])

RECURSIVE SumValues(_, _)
SumValues(dict, i) ==
    IF i > Len(dict) THEN 0 ELSE dict[i].val + SumValues(dict, i + 1)

\* Lines 185-196: one answer per respondent is read; a value that is not
\* blank counts for its code.
RECURSIVE PostalCounts(_, _, _)
PostalCounts(rows, i, st) ==
    IF i > Len(rows) THEN st
    ELSE LET a == rows[i]
             next ==
                IF a.respondent_id \in st.unique_respondents THEN st
                ELSE LET seen == st.unique_respondents \cup {a.respondent_id}
                     IN  IF a.open_value # Null /\ NonBlank(a.open_value)
                         THEN LET code == Strip(a.open_value)
                                  n == IF HasKey(st.postal_counts, code)
                                       THEN ValueOf(st.postal_counts, code) ELSE 0
                              IN  [unique_respondents |-> seen,
                                   postal_counts |->
                                       DictSet(st.postal_counts, code, n + 1)]
                         ELSE [st EXCEPT !.unique_respondents = seen]
         IN  PostalCounts(rows, i + 1, next)

\* sorted(items, key=lambda x: x[1], reverse=True): the sort is stable
RECURSIVE SortedDesc(_)
SortedDesc(dict) ==
    IF dict = <<>> THEN <<>>
    ELSE LET i == CHOOSE k \in 1..Len(dict) :
                    /\ \A j \in 1..Len(dict) : dict[j].val <= dict[k].val
                    /\ \A j \in 1..(k - 1) : dict[j].val < dict[k].val
         IN  <<dict[i]>> \o SortedDesc(SubSeq(dict, 1, i - 1)
                                       \o SubSeq(dict, i + 1, Len(dict)))

TopCodes == 10
Otros == <<"O","t","r","o","s">>

\* (mutant) "Otros" as what the retained codes leave of 100
CollapseToRemainder(postal_percentages) ==
    IF Len(postal_percentages) > TopCodes
    THEN LET sorted_items == SortedDesc(postal_percentages)
             top_10_items == SubSeq(sorted_items, 1, TopCodes)
         IN  DictSet(top_10_items, Otros, 10000 - SumValues(top_10_items, 1))
    ELSE postal_percentages

\* Lines 212-219: with more than ten codes, the ten of highest percentage
\* are kept and the percentages of the others are added up under "Otros".
Collapse(postal_percentages) ==
    IF Len(postal_percentages) > TopCodes
    THEN LET sorted_items == SortedDesc(postal_percentages)
             top_10_items == SubSeq(sorted_items, 1, TopCodes)
             other_percentage ==
                 SumValues(SubSeq(sorted_items, TopCodes + 1, Len(sorted_items)), 1)
         IN  IF other_percentage > 0
             THEN DictSet(top_10_items, Otros, other_percentage)
             ELSE top_10_items
    ELSE postal_percentages

Municipality == <<"M">>
Dash == <<" ", "-", " ">>

\* Lines 221-238: the key of a code becomes "CP - Municipio" when the
\* geocoder names its municipality (geo), and stays the code otherwise.
RECURSIVE Enriched(_, _, _, _)
Enriched(dict, i, geo, acc) ==
    IF i > Len(dict) THEN acc
    ELSE LET key == IF dict[i].key = Otros \/ ~geo THEN dict[i].key
                    ELSE dict[i].key \o Dash \o Municipality
         IN  Enriched(dict, i + 1, geo, DictSet(acc, key, dict[i].val))

\* The result and the variables of the formula for the answers of its
\* question; the total is not zero.
postal_code_distribution(rows, geo) ==
    LET st == PostalCounts(rows, 1, [unique_respondents |-> {}, postal_counts |-> <<>>])
        total_valid_responses == Cardinality(st.unique_respondents)
        postal_percentages ==
            [k \in 1..Len(st.postal_counts) |->
                [key |-> st.postal_counts[k].key,
                 val |-> Round2(st.postal_counts[k].val, total_valid_responses)]]
    IN  [result |-> Enriched(Collapse(postal_percentages), 1, geo, <<>>),
         counts |-> st.postal_counts,
         total  |-> total_valid_responses]

-----------------------------------------------------------------------------
(* The postal-code formula as a state machine: a company whose survey has   *)
(* the open question on the postal code is stored, and the formula is       *)
(* computed.                                                                *)

MaxCodes == 12
VaryCodes == 3
MaxPerCode == 2
MaxBlank == 1

PostalText == Phrase(<<"codigo", "postal">>)
PostalFormula ==
    Formulas[CHOOSE i \in 1..Len(Formulas) :
                Formulas[i].name = "calculate_postal_code_distribution"]

\* The open values of the respondents: counts[k] respondents give the k-th
\* code, then some leave white space.
RECURSIVE PostalValues(_, _, _, _)
PostalValues(codes, counts, blanks, k) ==
    IF k > codes THEN [i \in 1..blanks |-> Blank]
    ELSE [i \in 1..(IF k <= VaryCodes THEN counts[k] ELSE 1) |-> <<LowerCase[k]>>]
         \o PostalValues(codes, counts, blanks, k + 1)

PostalDb(values) ==
    [companies |-> {[id |-> 1, company_name |-> AnCompany]},
     questions |-> {[id |-> 1, company_id |-> 1, question_text |-> PostalText,
                     question_type |-> "open", question_index |-> 1]},
     options |-> {},
     respondents |-> {[id |-> i, company_id |-> 1] : i \in 1..Len(values)},
     answers |-> {[id |-> i] @@ Answer(1, i, 1, NoId, values[i]) :
                     i \in 1..Len(values)},
     nextId |-> [companies |-> 2, questions |-> 2, options |-> 1,
                 respondents |-> Len(values) + 1, answers |-> Len(values) + 1]]

PostalInit ==
    /\ \E codes \in TopCodes..MaxCodes, counts \in [1..VaryCodes -> 1..MaxPerCode],
          blanks \in 0..MaxBlank :
          db = PostalDb(PostalValues(codes, counts, blanks, 1))
    /\ inst = [NoInst EXCEPT !.company_id = 1]
    /\ last = NoCall /\ flow = IdleFlow /\ conv = NoConv /\ env = NoEnv

CalculatePostalCodeDistribution ==
    /\ env.formula = "none"
    /\ \E geo \in BOOLEAN :
          LET e == Calculate(db, inst.company_id, PostalFormula, "none", "absent")
              q == ById(FoundQuestions(db, inst.company_id, PostalFormula))[1]
              rows == ById(AnswersOfQuestion(db, inst.company_id, q))
          IN  env' = [figures |-> postal_code_distribution(rows, geo)] @@ e
    /\ UNCHANGED <<db, last, flow, conv, inst>>

PostalNext == CalculatePostalCodeDistribution

SpecPostal == PostalInit /\ [][PostalNext]_vars

-----------------------------------------------------------------------------
(* The search of a formula for its question: a company has some questions   *)
(* stored, in the order of their ids, and one formula is computed.          *)

MaxQuestions == 2

\* Question texts: two about gender, one with a motivation keyword only, one
\* with a motivation and a transport keyword, two about buying a vehicle (one
\* of them without "eléctrico"), one for the condition on "problema" of
\* calculate_no_parking_problems_percentage, one that no formula looks for.
FindTexts ==
    { Phrase(<<"cual", "es", "tu", "sexo">>),
      Phrase(<<"indica", "tu", "género">>),
      Phrase(<<"principales", "motivos", "de", "tu", "elección">>),
      Phrase(<<"ventaja", "del", "metro">>),
      Phrase(<<"comprarías", "un", "vehículo", "eléctrico">>),
      Phrase(<<"tienes", "previsto", "adquirir", "un", "coche">>),
      Phrase(<<"problema", "de", "aparcamiento">>),
      Phrase(<<"otra", "pregunta">>) }

FindQuestions ==
    UNION {{qs \in [1..n -> FindTexts] :
                \A i, j \in 1..n : i # j => qs[i] # qs[j]} : n \in 0..MaxQuestions}

FindDb(texts, respondents) ==
    [companies |-> {[id |-> 1, company_name |-> AnCompany]},
     questions |-> {[id |-> i, company_id |-> 1, question_text |-> texts[i],
                     question_type |-> "open", question_index |-> i] :
                        i \in 1..Len(texts)},
     options |-> {},
     respondents |-> {[id |-> i, company_id |-> 1] : i \in 1..respondents},
     answers |-> {},
     nextId |-> [companies |-> 2, questions |-> Len(texts) + 1, options |-> 1,
                 respondents |-> respondents + 1, answers |-> 1]]

FindInit ==
    /\ \E texts \in FindQuestions, respondents \in 0..1 :
          db = FindDb(texts, respondents)
    /\ inst = [NoInst EXCEPT !.company_id = 1]
    /\ last = NoCall /\ flow = IdleFlow /\ conv = NoConv /\ env = NoEnv

FindQuestion ==
    /\ env.formula = "none"
    /\ \E i \in 1..Len(Formulas) :
          env' = Calculate(db, inst.company_id, Formulas[i], "none", "absent")
    /\ UNCHANGED <<db, last, flow, conv, inst>>

FindNext == FindQuestion

SpecFind == FindInit /\ [][FindNext]_vars

-----------------------------------------------------------------------------
(* survey_analytics.py: the percentages of the formulas that count the      *)
(* mentions of the options of a multi-select question                       *)

FactorFormulas ==
    { "calculate_public_transport_barriers_percentage",
      "calculate_public_transport_motivations_percentage",
      "calculate_public_transport_improvement_factors_percentage",
      "calculate_cycling_improvement_factors_percentage" }

\* len(answers.data) of the select of the answers of one option
MentionsOf(d, c, o) ==
    Cardinality({a \in d.answers : a.company_id = c /\ a.option_id = o.id})

\* sum(factor_counts.values())
RECURSIVE TotalMentions(_, _, _)
TotalMentions(d, c, opts) ==
    IF opts = {} THEN 0
    ELSE LET o == CHOOSE x \in opts : TRUE
         IN  MentionsOf(d, c, o) + TotalMentions(d, c, opts \ {o})

\* (mutant) every formula divides by the sum of the counts
DenominatorOfMentions(d, c, f, q) ==
    TotalMentions(d, c, OptionsOfQuestion(d, c, q))

\* What a count is divided by: total_respondents = len(respondents), the
\* respondents being collected from the answers the formula reads; in
\* calculate_public_transport_improvement_factors_percentage
\* total_mentions = sum(factor_counts.values()).
Denominator(d, c, f, q) ==
    IF f.name = "calculate_public_transport_improvement_factors_percentage"
    THEN TotalMentions(d, c, OptionsOfQuestion(d, c, q))
    ELSE OptionsTotal(d, c, f, q, OptionsOfQuestion(d, c, q))

\* The options that get a percentage: those with a mention; in
\* calculate_cycling_improvement_factors_percentage every option that is
\* not skipped.
ReportedOptions(d, c, f, q) ==
    IF f.name = "calculate_cycling_improvement_factors_percentage"
    THEN CalledOptions(f, OptionsOfQuestion(d, c, q))
    ELSE {o \in OptionsOfQuestion(d, c, q) : MentionsOf(d, c, o) > 0}

\* detailed_result / percentages of a question with options, in hundredths:
\* round((count / total) * 100, 2) under the text of the option
factor_percentages(d, c, f, q) ==
    {[key |-> Strip(o.option_text),
      val |-> Round2(MentionsOf(d, c, o), Denominator(d, c, f, q))] :
        o \in ReportedOptions(d, c, f, q)}

-----------------------------------------------------------------------------
(* The factor formulas as a state machine: a multi-select question is       *)
(* stored with the selections of some respondents and one formula is        *)
(* computed.                                                                *)

MaxFactorRespondents == 2

FactorTexts == << Phrase(<<"a">>), Phrase(<<"b">>), Phrase(<<"ninguno">>) >>

FactorFormula(name) ==
    Formulas[CHOOSE i \in 1..Len(Formulas) : Formulas[i].name = name]

\* selections[r]: the options respondent r ticked (none: the respondent has
\* no answers row for the question)
FactorSelections ==
    UNION {[1..n -> SUBSET (1..Len(FactorTexts))] : n \in 1..MaxFactorRespondents}

RECURSIVE FactorAnswers(_, _)
FactorAnswers(selections, r) ==
    IF r > Len(selections) THEN <<>>
    ELSE [k \in 1..Cardinality(selections[r]) |->
             Answer(1, r, 1, ById({[id |-> o] : o \in selections[r]})[k].id, Null)]
         \o FactorAnswers(selections, r + 1)

FactorDb(f, selections) ==
    LET rows == FactorAnswers(selections, 1)
    IN  [companies |-> {[id |-> 1, company_name |-> AnCompany]},
         questions |-> {[id |-> 1, company_id |-> 1,
                         question_text |-> ReplaceChar(f.topic, "_", " "),
                         question_type |-> "multi", question_index |-> 1]},
         options |-> {[id |-> o, company_id |-> 1, question_id |-> 1,
                       option_text |-> FactorTexts[o]] : o \in 1..Len(FactorTexts)},
         respondents |-> {[id |-> r, company_id |-> 1] : r \in 1..Len(selections)},
         answers |-> {[id |-> i] @@ rows[i] : i \in 1..Len(rows)},
         nextId |-> [companies |-> 2, questions |-> 2,
                     options |-> Len(FactorTexts) + 1,
                     respondents |-> Len(selections) + 1,
                     answers |-> Len(rows) + 1]]

FactorInit ==
    /\ \E name \in FactorFormulas, selections \in FactorSelections :
          db = FactorDb(FactorFormula(name), selections)
    /\ inst = [NoInst EXCEPT !.company_id = 1]
    /\ last = NoCall /\ flow = IdleFlow /\ conv = NoConv /\ env = NoEnv

CalculateFactors ==
    /\ env.formula = "none"
    /\ \E name \in FactorFormulas :
          LET f == FactorFormula(name)
              e == Calculate(db, inst.company_id, f, "none", "absent")
              q == FirstQuestion(FoundQuestions(db, inst.company_id, f))
          IN  env' = [figures |-> IF "result" \in e.keys
                                  THEN factor_percentages(db, inst.company_id, f, q)
                                  ELSE {}] @@ e
    /\ UNCHANGED <<db, last, flow, conv, inst>>

FactorNext == CalculateFactors

SpecFactors == FactorInit /\ [][FactorNext]_vars

-----------------------------------------------------------------------------
(* database.py: save_survey_data, the row-by-row save.  Its state while it  *)
(* runs: the store, whether a repository call has raised, the number of     *)
(* calls made, the respondents and answers rows inserted.                   *)

\* One repository call that writes: it raises, or leaves the store d.
Execute(st, fault, d) ==
    IF ~st.ok THEN st
    ELSE IF Raises(st.calls, fault)
    THEN [st EXCEPT !.ok = FALSE, !.calls = @ + 1]
    ELSE [st EXCEPT !.d = d, !.calls = @ + 1]

\* One select: it raises, or leaves the store as it is.
Select(st, fault) == Execute(st, fault, st.d)

\* One answer of a closed question: the option is looked up by question and
\* text and inserted when missing, then the answers row is inserted.
SaveOptionAnswer(st, fault, company_id, respondent_id, question_id, ans) ==
    LET s1  == Select(st, fault)
        hit == {o \in s1.d.options :
                   o.question_id = question_id /\ o.option_text = ans}
        s2  == IF hit # {} THEN s1
               ELSE Execute(s1, fault,
                        InsertRows(s1.d, "options",
                            <<[company_id |-> company_id,
                               question_id |-> question_id,
                               option_text |-> ans]>>).d)
        option_id == IF hit # {} THEN ById(hit)[1].id
                     ELSE s1.d.nextId["options"]
        s3  == Execute(s2, fault,
                   InsertRows(s2.d, "answers",
                       <<Answer(company_id, respondent_id, question_id,
                                option_id, Null)>>).d)
    IN  IF s3.ok THEN [s3 EXCEPT !.answers = @ + 1] ELSE s3

RECURSIVE SaveOptionAnswers(_, _, _, _, _, _, _)
SaveOptionAnswers(st, fault, company_id, respondent_id, question_id, items, k) ==
    IF k > Len(items) \/ ~st.ok THEN st
    ELSE SaveOptionAnswers(
             SaveOptionAnswer(st, fault, company_id, respondent_id, question_id,
                              str(items[k])),
             fault, company_id, respondent_id, question_id, items, k + 1)

\* One QA record: the question is looked up by text and company and inserted
\* when missing; the shape of this record's answer decides how it is saved.
SaveQA(st, fault, company_id, respondent_id, qa) ==
    LET question_type == QuestionTypeOf(qa.answer)
        s1  == Select(st, fault)
        hit == {q \in s1.d.questions :
                   q.question_text = qa.question /\ q.company_id = company_id}
        s2  == IF hit # {} THEN s1
               ELSE Execute(s1, fault,
                        InsertRows(s1.d, "questions",
                            <<[company_id |-> company_id,
                               question_text |-> qa.question,
                               question_type |-> question_type,
                               question_index |-> qa.index]>>).d)
        question_id == IF hit # {} THEN ById(hit)[1].id
                       ELSE s1.d.nextId["questions"]
    IN  IF question_type = "open"
        THEN LET s3 == Execute(s2, fault,
                           InsertRows(s2.d, "answers",
                               <<Answer(company_id, respondent_id, question_id,
                                        NoId, str(qa.answer))>>).d)
             IN  IF s3.ok THEN [s3 EXCEPT !.answers = @ + 1] ELSE s3
        ELSE SaveOptionAnswers(s2, fault, company_id, respondent_id, question_id,
                               AnswersList(question_type, qa.answer).items, 1)

RECURSIVE SaveQAs(_, _, _, _, _, _)
SaveQAs(st, fault, company_id, respondent_id, qas, k) ==
    IF k > Len(qas) \/ ~st.ok THEN st
    ELSE SaveQAs(SaveQA(st, fault, company_id, respondent_id, qas[k]),
                 fault, company_id, respondent_id, qas, k + 1)

\* The loop over the respondents: the respondents row first, then its QAs.
RECURSIVE SaveRespondents(_, _, _, _, _)
SaveRespondents(st, fault, company_id, json_data, r) ==
    IF r > Len(json_data) \/ ~st.ok THEN st
    ELSE LET respondent_id == st.d.nextId["respondents"]
             s1 == Execute(st, fault,
                       InsertRows(st.d, "respondents",
                                  <<[company_id |-> company_id]>>).d)
             s2 == IF s1.ok THEN [s1 EXCEPT !.respondents = @ + 1] ELSE s1
         IN  SaveRespondents(
                 SaveQAs(s2, fault, company_id, respondent_id, json_data[r], 1),
                 fault, company_id, json_data, r + 1)

\* save_survey_data(supabase, json_data, company_id): what the try block
\* leaves, with the number of repository calls it made
save_survey_data(d, json_data, company_id, fault) ==
    SaveRespondents([d |-> d, ok |-> TRUE, calls |-> 0, respondents |-> 0,
                     answers |-> 0, failed |-> "none"],
                    fault, company_id, json_data, 1)

-----------------------------------------------------------------------------
(* The store under both saves: one company, whose surveys are saved with    *)
(* save_survey_data_batch or save_survey_data and deleted, a repository     *)
(* call raising at any step.                                                *)

MaxStoreCalls == 3

\* What the converter gives for a row answering an open and a closed
\* question, and for a blank row of a table with closed questions only.
StoreInputs ==
    { one_hot_df_to_json(OneHotTable(DbLayout, << <<PyStr(Txt), PyStr(Txt)>> >>)),
      one_hot_df_to_json(OneHotTable(<<Col(ColBx, "bin", 2)>>, << <<NaN, NaN>> >>)) }

StoreDelete ==
    \E c \in db.companies, fault \in 0..DeleteCalls :
       LET r == delete_company_data(db, c.company_name, fault)
       IN  /\ Healthy /\ last.n < MaxStoreCalls
           /\ db' = r.d
           /\ last' = Call("delete", c.id, r, fault, <<>>, last.n + 1)
           /\ UNCHANGED <<flow, conv, inst, env>>

StoreSaveBatch ==
    \E c \in db.companies, json_data \in StoreInputs, fault \in 0..SaveCalls :
       /\ Healthy /\ last.n < MaxStoreCalls
       /\ LET r == save_survey_data_batch(db, json_data, c.id, fault)
          IN  /\ db' = r.d
              /\ last' = Call("save", c.id, r, fault, json_data, last.n + 1)
       /\ UNCHANGED <<flow, conv, inst, env>>

StoreSave ==
    \E c \in db.companies, json_data \in StoreInputs :
    \E fault \in 0..save_survey_data(db, json_data, c.id, 0).calls :
       /\ Healthy /\ last.n < MaxStoreCalls
       /\ LET r == save_survey_data(db, json_data, c.id, fault)
          IN  /\ db' = r.d
              /\ last' = Call("save_survey_data", c.id,
                              [r EXCEPT !.failed = IF r.ok THEN "none" ELSE "raised"],
                              fault, json_data, last.n + 1)
       /\ UNCHANGED <<flow, conv, inst, env>>

StoreNext == AnGetCompanyId \/ StoreDelete \/ StoreSaveBatch \/ StoreSave

SpecStore == Init /\ [][StoreNext]_vars

-----------------------------------------------------------------------------
(* survey_analytics.py: the counts and percentages of                       *)
(* calculate_distance_range_distribution and                                *)
(* calculate_travel_time_distribution                                       *)

\* The first answer of each respondent in answers.data:
\* `if answer['respondent_id'] in unique_respondents: continue`
FirstAnswers(rows) ==
    {a \in rows : \A b \in rows : b.respondent_id = a.respondent_id => a.id <= b.id}

\* The figures of one of the two formulas for its question q:
\*   counted_in: for each option, the range its answers are added to
\*               (matching_range; 0: the option is skipped)
\*   counts:     range_info["count"] of each range
\*   total:      total_respondents
\*   result:     the percentages in hundredths
range_distribution(d, c, f, q) ==
    LET opts == OptionsOfQuestion(d, c, q)
        rows == FirstAnswers(AnswersOfQuestion(d, c, q))
        counted_in == [o \in {x.id : x \in opts} |->
                          matching_range(f, (CHOOSE x \in opts : x.id = o).option_text)]
        counts == [k \in 1..Len(RangesOf(f)) |->
                      IF opts = {}
                      THEN Cardinality({a \in rows :
                                           matching_range(f, a.open_value) = k})
                      ELSE TotalMentions(d, c,
                               {o \in opts : matching_range(f, o.option_text) = k})]
        total_respondents == count_unique_respondents_for_question(d, c, q, "none").count
    IN  [counted_in |-> counted_in,
         counts |-> counts,
         total |-> total_respondents,
         result |-> [k \in 1..Len(RangesOf(f)) |->
                        IF total_respondents > 0
                        THEN Round2(counts[k], total_respondents) ELSE 0]]

-----------------------------------------------------------------------------
(* The two formulas as a state machine: the question on the distance or on  *)
(* the time is stored, closed (one option per text that was ticked) or      *)
(* open, with the answers of some respondents, and the formula is computed. *)

MaxRangeRespondents == 2

RangeFormulas ==
    {"calculate_distance_range_distribution", "calculate_travel_time_distribution"}

\* The texts of the options or of the open answers: the names of the five
\* ranges of the formula, then a number with its unit, a number that falls
\* between two ranges or a time in hours and minutes, a bare number, a range
\* without its unit and a text without a number.
MoreDistanceTexts ==
    << <<"4","0"," ","k","m">>,
       <<"5",",","5"," ","k","m">>,
       <<"1","2">>,
       <<"E","n","t","r","e"," ","6"," ","y"," ","1","5">>,
       <<"N","o"," ","l","o"," ","s","é">> >>
MoreTimeTexts ==
    << <<"2"," ","h","o","r","a","s">>,
       <<"1"," ","l","a","r","g","a"," ","h","o","r","a"," ","5"," ","l","a","r","g","o","s"," ","m","i","n","u","t","o","s">>,
       <<"2","0">>,
       <<"E","n","t","r","e"," ","1","6"," ","y"," ","3","0">>,
       <<"N","o"," ","l","o"," ","s","é">> >>

RangeTexts(f) ==
    [k \in 1..Len(RangesOf(f)) |-> RangesOf(f)[k].name]
    \o (IF f.name = "calculate_distance_range_distribution"
        THEN MoreDistanceTexts ELSE MoreTimeTexts)

\* picks[r]: the text respondent r chose or wrote, 0 for none
RangePicks(f) ==
    UNION {[1..n -> 0..Len(RangeTexts(f))] : n \in 1..MaxRangeRespondents}

\* A closed question: the options are the texts that were ticked, in the
\* order of the columns; a respondent without a tick has no answer.  An open
\* question: every respondent has an answer, "nan" for none.
RangeDb(f, closed, picks) ==
    LET texts == RangeTexts(f)
        ticked == {k \in 1..Len(texts) : \E r \in 1..Len(picks) : picks[r] = k}
        option_id == [k \in ticked |-> Cardinality({j \in ticked : j <= k})]
        answered == {r \in 1..Len(picks) : ~closed \/ picks[r] # 0}
        answer_id == [r \in answered |-> Cardinality({j \in answered : j <= r})]
    IN  [companies |-> {[id |-> 1, company_name |-> AnCompany]},
         questions |-> {[id |-> 1, company_id |-> 1,
                         question_text |-> ReplaceChar(f.topic, "_", " "),
                         question_type |-> IF closed THEN "single" ELSE "open",
                         question_index |-> 1]},
         options |-> IF closed
                     THEN {[id |-> option_id[k], company_id |-> 1, question_id |-> 1,
                            option_text |-> texts[k]] : k \in ticked}
                     ELSE {},
         respondents |-> {[id |-> r, company_id |-> 1] : r \in 1..Len(picks)},
         answers |-> {[id |-> answer_id[r]]
                        @@ (IF closed
                            THEN Answer(1, r, 1, option_id[picks[r]], Null)
                            ELSE Answer(1, r, 1, NoId,
                                        IF picks[r] = 0 THEN <<"n","a","n">>
                                        ELSE texts[picks[r]])) : r \in answered},
         nextId |-> [companies |-> 2, questions |-> 2,
                     options |-> IF closed THEN Cardinality(ticked) + 1 ELSE 1,
                     respondents |-> Len(picks) + 1,
                     answers |-> Cardinality(answered) + 1]]

RangeInit ==
    /\ \E name \in RangeFormulas, closed \in BOOLEAN :
       \E picks \in RangePicks(FactorFormula(name)) :
          db = RangeDb(FactorFormula(name), closed, picks)
    /\ inst = [NoInst EXCEPT !.company_id = 1]
    /\ last = NoCall /\ flow = IdleFlow /\ conv = NoConv /\ env = NoEnv

CalculateRangeDistribution ==
    /\ env.formula = "none"
    /\ \E name \in RangeFormulas :
          LET f == FactorFormula(name)
              e == Calculate(db, inst.company_id, f, "none", "absent")
              q == FirstQuestion(FoundQuestions(db, inst.company_id, f))
          IN  env' = [figures |-> IF "result" \in e.keys
                                  THEN range_distribution(db, inst.company_id, f, q)
                                  ELSE {}] @@ e
    /\ UNCHANGED <<db, last, flow, conv, inst>>

RangeNext == CalculateRangeDistribution

SpecRange == RangeInit /\ [][RangeNext]_vars

-----------------------------------------------------------------------------
(* calculate_business_trips_percentage and                                  *)
(* calculate_multimodal_workers_percentage as a state machine: the question *)
(* on the trips during work (one answer each) and the question on the       *)
(* combination of modes (any number of answers) are stored with the answers *)
(* of some respondents; the two formulas are computed, in any order and any *)
(* number of times, and a computation may meet a failing repository.        *)

MaxMissionRespondents == 2

MissionFormulas ==
    {"calculate_business_trips_percentage", "calculate_multimodal_workers_percentage"}

\* The options of the question on the trips during work, in the order of
\* the columns.
MissionTexts ==
    << <<"S","í">>,
       <<"S","í",","," ","a"," ","v","e","c","e","s">>,
       <<"N","o">>,
       <<"N","o"," ","n","e","c","e","s","i","t","o"," ","d","e","s","p","l","a","z","a","r","m","e">> >>

ModeTexts == << <<"B","u","s">> >>

\* ticks[r]: the option of the first question respondent r ticked (0 for
\* none) and the options of the second.
MissionTicks ==
    UNION {[1..n -> [trips : 0..Len(MissionTexts), modes : SUBSET (1..Len(ModeTexts))]] :
              n \in 1..MaxMissionRespondents}

\* The answers of the respondents from r on, in the order they are saved.
RECURSIVE MissionAnswers(_, _, _, _)
MissionAnswers(ticks, trip_id, mode_id, r) ==
    IF r > Len(ticks) THEN <<>>
    ELSE (IF ticks[r].trips = 0 THEN <<>>
          ELSE <<Answer(1, r, 1, trip_id[ticks[r].trips], Null)>>)
         \o [k \in 1..Cardinality(ticks[r].modes) |->
                Answer(1, r, 2, mode_id[ById({[id |-> m] : m \in ticks[r].modes})[k].id],
                       Null)]
         \o MissionAnswers(ticks, trip_id, mode_id, r + 1)

\* The options stored are those that were ticked.
MissionDb(ticks) ==
    LET trips == {k \in 1..Len(MissionTexts) : \E r \in 1..Len(ticks) : ticks[r].trips = k}
        modes == {m \in 1..Len(ModeTexts) : \E r \in 1..Len(ticks) : m \in ticks[r].modes}
        trip_id == [k \in trips |-> Cardinality({j \in trips : j <= k})]
        mode_id == [m \in modes |->
                       Cardinality(trips) + Cardinality({j \in modes : j <= m})]
        rows == MissionAnswers(ticks, trip_id, mode_id, 1)
        topic(name) == ReplaceChar(FactorFormula(name).topic, "_", " ")
    IN  [companies |-> {[id |-> 1, company_name |-> AnCompany]},
         questions |-> {[id |-> 1, company_id |-> 1,
                         question_text |-> topic("calculate_business_trips_percentage"),
                         question_type |-> "single", question_index |-> 1],
                        [id |-> 2, company_id |-> 1,
                         question_text |-> topic("calculate_multimodal_workers_percentage"),
                         question_type |-> "multi", question_index |-> 2]},
         options |-> {[id |-> trip_id[k], company_id |-> 1, question_id |-> 1,
                       option_text |-> MissionTexts[k]] : k \in trips}
                     \cup {[id |-> mode_id[m], company_id |-> 1, question_id |-> 2,
                            option_text |-> ModeTexts[m]] : m \in modes},
         respondents |-> {[id |-> r, company_id |-> 1] : r \in 1..Len(ticks)},
         answers |-> {[id |-> i] @@ rows[i] : i \in 1..Len(rows)},
         nextId |-> [companies |-> 2, questions |-> 3,
                     options |-> Cardinality(trips) + Cardinality(modes) + 1,
                     respondents |-> Len(ticks) + 1,
                     answers |-> Len(rows) + 1]]

MissionInit ==
    /\ \E ticks \in MissionTicks : db = MissionDb(ticks)
    /\ inst = [NoInst EXCEPT !.company_id = 1]
    /\ last = NoCall /\ flow = IdleFlow /\ conv = NoConv /\ env = NoEnv

\* One of the two formulas is computed on the instance; figures holds the
\* variables N_misión and N_no_misión of calculate_business_trips_percentage.
CalculateMission ==
    \E name \in MissionFormulas, fault \in {"none", "answers"} :
        LET f == FactorFormula(name)
            e == Calculate(db, inst.company_id, f, fault, "absent")
            q == FirstQuestion(FoundQuestions(db, inst.company_id, f))
            counts == business_trips(db, inst.company_id,
                                     OptionsOfQuestion(db, inst.company_id, q))
        IN  /\ env' = [figures |->
                          IF "result" \in e.keys
                             /\ name = "calculate_business_trips_percentage"
                          THEN [N_mision |-> counts.yes_count,
                                N_no_mision |-> counts.no_count]
                          ELSE [N_mision |-> 0, N_no_mision |-> 0]] @@ e
            /\ inst' = MissionAfter(db, inst.company_id, f, e, "absent", inst)
            /\ UNCHANGED <<db, last, flow, conv>>

MissionNext == CalculateMission

SpecMission == MissionInit /\ [][MissionNext]_vars

-----------------------------------------------------------------------------
(* From the table to the postal-code formula: a table with the open column  *)
(* of the postal code is converted and saved for a company with nothing     *)
(* stored, a SurveyAnalytics is built and the formula is computed.          *)

MaxPostalRows == 2

\* A cell of the column: empty, a code, another code, white space.
PostalCells == {NaN, PyStr(Five), PyStr(<<"7">>), PyStr(Blank)}

PostalTables == UNION {[1..n -> [1..1 -> PostalCells]] : n \in 1..MaxPostalRows}

IngestPostalCodes ==
    \E c \in db.companies, raws \in PostalTables, fault \in 0..SaveCalls :
       /\ last.op # "save" /\ inst.company_id = NoId
       /\ LET json_data == one_hot_df_to_json(
                               OneHotTable(AnLayout(PostalFormula.topic, "open"), raws))
              r == save_survey_data_batch(db, json_data, c.id, fault)
          IN  /\ db' = r.d
              /\ last' = Call("save", c.id, r, fault, json_data, 1)
       /\ UNCHANGED <<flow, conv, inst, env>>

\* The formula is computed once the save has succeeded.
CalculateIngestedPostalCodes ==
    /\ Computing /\ last.op = "save" /\ last.ok
    /\ \E geo \in BOOLEAN :
          LET e == Calculate(db, inst.company_id, PostalFormula, "none", "absent")
              q == FirstQuestion(FoundQuestions(db, inst.company_id, PostalFormula))
              rows == ById(AnswersOfQuestion(db, inst.company_id, q))
          IN  env' = [figures |-> IF "result" \in e.keys
                                  THEN postal_code_distribution(rows, geo)
                                  ELSE [result |-> <<>>, counts |-> <<>>, total |-> 0]]
                     @@ e
    /\ UNCHANGED <<db, last, flow, conv, inst>>

IngestNext ==
    \/ AnGetCompanyId \/ IngestPostalCodes \/ NewAnalytics
    \/ CalculateIngestedPostalCodes

SpecIngest == Init /\ [][IngestNext]_vars

-----------------------------------------------------------------------------
(* CLAIMS *)
-----------------------------------------------------------------------------
(* Vocabulary of the converter claims *)

ConvDone == conv.stage = "done"
ConvGroups == conv.groups
ConvRows == 1..Len(conv.df.rows)
GroupIds == 1..Len(ConvGroups)

IsClosed(j) == ConvGroups[j].cols # <<>>

\* Some indicator column of group j holds 1 in row r.
AnyOptionSelected(r, j) ==
    \E i \in 1..Len(ConvGroups[j].cols) :
        /\ ~EndsWith(ConvGroups[j].cols[i], TextSuffix)
        /\ IsSelected(conv.df.rows[r][ConvGroups[j].cols[i]])

\* The positions in respondent r's list of the records of group j.
RecordsOf(r, j) ==
    {k \in 1..Len(conv.out[r]) : conv.out[r][k].question = Humanize(ConvGroups[j].base)}

Emitted(r, j) == RecordsOf(r, j) # {}
IndexOf(r, j) == conv.out[r][CHOOSE k \in RecordsOf(r, j) : TRUE].index

\* Group j is a closed question that row r selects nothing of, and i and k
\* are the nearest groups before and after it that have a record.
SkippedBetween(r, i, j, k) ==
    /\ i < j /\ j < k
    /\ IsClosed(j) /\ ~AnyOptionSelected(r, j)
    /\ Emitted(r, i) /\ Emitted(r, k)
    /\ \A m \in (i + 1)..(k - 1) : ~Emitted(r, m)

\* C9 (as stated): a respondent who selects no option of a closed question gets
\* no record for it, and the next emitted record's index is exactly one greater
\* than the index of the last record emitted before the skipped question.
C9_Original ==
    ConvDone =>
        \A r \in ConvRows : \A j \in GroupIds :
            (IsClosed(j) /\ ~AnyOptionSelected(r, j)) =>
                /\ ~Emitted(r, j)
                /\ \A i, k \in GroupIds :
                      SkippedBetween(r, i, j, k) => IndexOf(r, k) = IndexOf(r, i) + 1

\* C9 (amended): a respondent who selects no option of a closed question gets
\* no record for it, but the skipped question still advances the counter: the
\* next emitted record's index is the last emitted index plus one plus the
\* number of questions skipped in between, so the gap stays in the numbering.
C9_SkipKeepsGap ==
    ConvDone =>
        \A r \in ConvRows : \A j \in GroupIds :
            (IsClosed(j) /\ ~AnyOptionSelected(r, j)) =>
                /\ ~Emitted(r, j)
                /\ \A i, k \in GroupIds :
                      SkippedBetween(r, i, j, k) =>
                          IndexOf(r, k) = IndexOf(r, i) + 1 + (k - i - 1)

\* C9 witness: a row skips a closed question that lies between two emitted ones.
C9_Witness ==
    /\ ConvDone
    /\ \E r \in ConvRows : \E i, j, k \in GroupIds : SkippedBetween(r, i, j, k)

\* C10: no record of a closed question has an empty answer list: a closed
\* question has a record for a respondent only if at least one of its option
\* indicators is 1 in that respondent's row.
C10_ClosedRecordHasSelection ==
    ConvDone =>
        \A r \in ConvRows : \A j \in GroupIds :
            (IsClosed(j) /\ Emitted(r, j)) =>
                /\ \A k \in RecordsOf(r, j) :
                      /\ conv.out[r][k].answer.kind = "list"
                      /\ conv.out[r][k].answer.items # <<>>
                /\ AnyOptionSelected(r, j)

\* C10 witness: one closed question with a record, one without, in the same run.
C10_Witness ==
    /\ ConvDone
    /\ \E r \in ConvRows : \E j, m \in GroupIds :
          /\ IsClosed(j) /\ Emitted(r, j) /\ AnyOptionSelected(r, j)
          /\ IsClosed(m) /\ ~Emitted(r, m)

\* C15: the index of every record is the 1-based position of its question
\* group in the iteration order of the groups, whatever was skipped before
\* it, and the indexes of one respondent's list are strictly increasing.
C15_IndexIsGroupPosition ==
    ConvDone =>
        \A r \in ConvRows :
            /\ \A j \in GroupIds :
                  Emitted(r, j) => \A k \in RecordsOf(r, j) : conv.out[r][k].index = j
            /\ \A k \in 1..Len(conv.out[r]) :
                  \E j \in GroupIds : k \in RecordsOf(r, j)
            /\ \A k \in 1..(Len(conv.out[r]) - 1) :
                  conv.out[r][k].index < conv.out[r][k + 1].index

\* C15 witness: a respondent's list holds the records of the first and the
\* third group only, with the indexes 1 and 3.
C15_Witness ==
    /\ ConvDone /\ Len(ConvGroups) = 3
    /\ \E r \in ConvRows :
          /\ Len(conv.out[r]) = 2
          /\ conv.out[r][1].index = 1 /\ conv.out[r][2].index = 3
          /\ ~Emitted(r, 2)

\* C30: one_hot_df_to_json returns exactly one QA list per data row of the
\* table, in the order of the rows, and each list holds a record for every
\* open question, emitted even when the cell is empty; a respondent who
\* answers every closed question gets one record per question, with the
\* indexes 1, 2, ...
C30_OneListPerRow ==
    ConvDone =>
        /\ Len(conv.out) = Len(conv.df.rows)
        /\ \A r \in ConvRows :
              /\ \A j \in GroupIds :
                    ~IsClosed(j) =>
                        /\ Cardinality(RecordsOf(r, j)) = 1
                        /\ \A k \in RecordsOf(r, j) :
                              conv.out[r][k].answer
                                  = conv.df.rows[r][ConvGroups[j].base]
              /\ (\A j \in GroupIds : IsClosed(j) => AnyOptionSelected(r, j))
                    => /\ Len(conv.out[r]) = Len(ConvGroups)
                       /\ \A k \in 1..Len(conv.out[r]) : conv.out[r][k].index = k

\* C30 witness: two rows that differ in the open question, the first with an
\* empty cell, both answering every closed question.
C30_Witness ==
    /\ ConvDone /\ Len(conv.df.rows) = 2
    /\ \E j \in GroupIds :
          /\ ~IsClosed(j)
          /\ conv.df.rows[1][ConvGroups[j].base] = NaN
          /\ conv.df.rows[2][ConvGroups[j].base] # NaN
          /\ \E k \in RecordsOf(1, j) : conv.out[1][k].answer = NaN
    /\ \A r \in ConvRows : \A j \in GroupIds : IsClosed(j) => AnyOptionSelected(r, j)
    /\ Len(conv.out[1]) = 3 /\ Len(conv.out[2]) = 3

\* The indicator columns of group j that hold 1 in row r.
SelectedColumns(r, j) ==
    {i \in 1..Len(ConvGroups[j].cols) :
        /\ ~EndsWith(ConvGroups[j].cols[i], TextSuffix)
        /\ IsSelected(conv.df.rows[r][ConvGroups[j].cols[i]])}

\* C29: in row_to_qa every indicator column of a closed question whose value
\* is 1 contributes exactly one entry to the answer list of the question: no
\* selected option is lost, also when two or more selected option labels
\* contain "otro", "other" or "especif".
C29_EverySelectionKept ==
    ConvDone =>
        \A r \in ConvRows : \A j \in GroupIds :
            (IsClosed(j) /\ AnyOptionSelected(r, j)) =>
                /\ Emitted(r, j)
                /\ \A k \in RecordsOf(r, j) :
                      Len(conv.out[r][k].answer.items)
                          = Cardinality(SelectedColumns(r, j))

\* A respondent ticks "otro x" and "especifique" and the answer list of the
\* question holds one entry.
C29_FailingInput ==
    /\ ConvDone
    /\ \E r \in ConvRows : \E j \in GroupIds :
          /\ Cardinality(SelectedColumns(r, j)) = 2
          /\ \A i \in SelectedColumns(r, j) :
                IsOtherOption(ReplaceChar(SplitRest(ConvGroups[j].cols[i]), "_", " "))
          /\ \E k \in RecordsOf(r, j) : Len(conv.out[r][k].answer.items) = 1

-----------------------------------------------------------------------------
(* Claims about the data layer *)

Tables == {"questions", "options", "respondents", "answers"}

\* The question texts of the QA lists of a call.
TextsOf(data) == UNION {{data[r][k].question : k \in 1..Len(data[r])} : r \in 1..Len(data)}

QuestionRows(d, c, text) ==
    {q \in d.questions : q.company_id = c /\ q.question_text = text}

\* Every stored row of d is still stored, under its id, in e.
NoRowLost(d, e) == \A t \in Tables : \A r \in d[t] : \E s \in e[t] : s.id = r.id

\* A step that is the second of two successful calls of save_survey_data_batch
\* with the same QA lists for the same company, no repository call raising.
SavedAgain ==
    /\ last.op = "save" /\ last.ok
    /\ last'.op = "save" /\ last'.fault = 0
    /\ last'.company = last.company /\ last'.data = last.data

\* C1: saving the same data twice for the same company succeeds both times
\* and leaves exactly one questions row per (company_id, question_text) and
\* one options row per (question_id, option_text): the second call adds no
\* questions or options row, and inserts the respondents and answers rows
\* again.
C1_SaveTwiceUpserts ==
    [][SavedAgain =>
        LET c == last'.company
            data == last'.data
        IN  /\ last'.ok
            /\ \A text \in TextsOf(data) :
                  Cardinality(QuestionRows(db', c, text)) = 1
            /\ \A o1, o2 \in db'.options :
                  (o1.question_id = o2.question_id /\ o1.option_text = o2.option_text)
                     => o1 = o2
            /\ db'.questions = db.questions
            /\ db'.options = db.options
            /\ Cardinality(RowsOf(db', "respondents", c))
                  = Cardinality(RowsOf(db, "respondents", c)) + Len(data)
            /\ Cardinality(RowsOf(db', "answers", c))
                  = Cardinality(RowsOf(db, "answers", c)) + last.answers
            /\ last'.answers = last.answers
            /\ last'.respondents = Len(data)
    ]_vars

C1_Witness ==
    /\ last.op = "save" /\ last.ok /\ last.n >= 2
    /\ Len(last.data) = 2 /\ last.answers > 0
    /\ Cardinality(RowsOf(db, "respondents", last.company)) = 2 * Len(last.data)
    /\ Cardinality(RowsOf(db, "answers", last.company)) = 2 * last.answers
    /\ \A text \in TextsOf(last.data) :
          Cardinality(QuestionRows(db, last.company, text)) = 1
    /\ db.options # {}

\* The order in which the company's tables are emptied.
C3_Order == <<"answers", "options", "respondents", "questions">>

\* The position in C3_Order of the delete that failed, 5 when none did.
C3_FailedAt(failed) ==
    IF \E k \in 1..4 : C3_Order[k] = failed
    THEN CHOOSE k \in 1..4 : C3_Order[k] = failed
    ELSE 5

\* C3: delete_company_data removes the company's rows from answers, options,
\* respondents and questions in that order and stops at the first delete
\* that fails: the tables before it are emptied of the company's rows, that
\* table and the later ones keep them; the companies table and the rows of
\* other companies are never touched; it returns True only if all four
\* deletes were made.
C3_DeleteInOrder ==
    [][last'.op = "delete" =>
        LET c == last'.company
            k == C3_FailedAt(last'.failed)
        IN  /\ db'.companies = db.companies
            /\ \A t \in Tables :
                  {r \in db'[t] : r.company_id # c} = {r \in db[t] : r.company_id # c}
            /\ last'.failed \in {"general", "not found"} => db' = db /\ ~last'.ok
            /\ last'.failed \notin {"general", "not found"} =>
                  /\ \A i \in 1..4 :
                        RowsOf(db', C3_Order[i], c) =
                           IF i < k THEN {} ELSE RowsOf(db, C3_Order[i], c)
                  /\ last'.ok <=> k = 5
    ]_vars

C3_Witness ==
    /\ last.op = "delete" /\ last.failed = "respondents" /\ ~last.ok
    /\ RowsOf(db, "answers", last.company) = {}
    /\ RowsOf(db, "options", last.company) = {}
    /\ RowsOf(db, "respondents", last.company) # {}
    /\ RowsOf(db, "questions", last.company) # {}
    /\ \E r \in db.answers : r.company_id # last.company
    /\ \E r \in db.companies : r.id = last.company

\* C4: a write that fails inside save_survey_data_batch makes it return
\* False; the steps after the failing one are not made (their tables are as
\* before the call) and what the steps before it wrote stays stored.
C4_FailureAbortsNoRollback ==
    [][(last'.op = "save" /\ ~last'.ok) =>
        LET c == last'.company
            data == last'.data
            f == last'.failed
            written == \A text \in TextsOf(data) : QuestionRows(db', c, text) # {}
        IN  /\ f \in {"questions", "options", "respondents", "answers", "internal"}
            /\ NoRowLost(db, db')
            /\ f = "questions" => db' = db
            /\ f = "options" =>
                  /\ written
                  /\ db'.options = db.options
                  /\ db'.respondents = db.respondents
                  /\ db'.answers = db.answers
            /\ f = "respondents" =>
                  /\ written
                  /\ db'.respondents = db.respondents
                  /\ db'.answers = db.answers
            /\ f = "answers" =>
                  /\ written
                  /\ Cardinality(db'.respondents)
                        = Cardinality(db.respondents) + Len(data)
                  /\ db'.answers = db.answers
    ]_vars

C4_Witness ==
    /\ last.op = "save" /\ ~last.ok /\ last.failed = "answers"
    /\ Cardinality(RowsOf(db, "respondents", last.company)) = Len(last.data)
    /\ RowsOf(db, "questions", last.company) # {}
    /\ RowsOf(db, "options", last.company) # {}
    /\ RowsOf(db, "answers", last.company) = {}


-----------------------------------------------------------------------------
(* Claims about the ingestion flow *)

\* The step in which the flow calls save_survey_data_batch.
SaveIsCalled == flow.pc = "save" /\ flow'.pc # "save"

-----------------------------------------------------------------------------
(* The analytics, under SpecAn.                                             *)

Company == inst.company_id
HasReturned == env.formula # "none"
NoQuestions == RowsOf(db, "questions", Company) = {}
IsError == "error" \in env.keys /\ "result" \notin env.keys
IsCalculate ==
    env.formula \notin {"none", "get_total_questions",
                        "analyze_open_proposals_for_mobility"}
IsParticipation == env.formula = "calculate_participation_rate"

\* C5, as stated: every calculate_* formula called for a company that has no
\* stored questions returns an envelope with error and without result.
C5_Original == (IsCalculate /\ NoQuestions) => IsError

\* C5: every calculate_* formula other than calculate_participation_rate,
\* called for a company that has no stored questions, returns an envelope
\* with error and without result; calculate_participation_rate does not read
\* the questions.
C5_NoQuestionsIsError ==
    (IsCalculate /\ ~IsParticipation /\ NoQuestions) => IsError

\* a formula has answered with the error for a company that has respondents
\* and no question
C5_Witness ==
    /\ env.formula = "calculate_gender_distribution"
    /\ NoQuestions /\ RowsOf(db, "respondents", Company) # {}
    /\ IsError /\ ~env.failed

\* C6, as stated: a formula whose question is found and whose total of valid
\* responses is zero returns an envelope with name and error and without
\* result, and does not raise.
C6_ZeroTotalIsError ==
    (HasReturned /\ env.found /\ env.total = 0 /\ ~env.failed)
        => ("name" \in env.keys /\ IsError /\ ~env.raised)

\* calculate_business_trips_percentage on a survey saved without a fault,
\* whose question has an option that no answer refers to: a result.
C6_FailingInput ==
    /\ env.formula = "calculate_business_trips_percentage"
    /\ last.op = "save" /\ last.ok
    /\ env.found /\ env.total = 0 /\ ~env.failed
    /\ OptionsOfQuestion(db, Company, ById(RowsOf(db, "questions", Company))[1]) # {}
    /\ "result" \in env.keys /\ "error" \notin env.keys

\* C7, as stated: no envelope carries both error and result.
C7_Original == ~({"error", "result"} \subseteq env.keys)

\* C7: an envelope carries both error and result only when it is the one
\* calculate_participation_rate returns for total_employees <= 0; in every
\* other envelope that carries error, result is absent.
C7_ErrorExcludesResult ==
    ({"error", "result"} \subseteq env.keys)
        => (IsParticipation /\ env.total_employees <= 0)

\* a formula has found its question with no valid response, and answered
\* with the error alone
C7_Witness ==
    /\ env.formula = "calculate_gender_distribution"
    /\ env.found /\ env.total = 0
    /\ "error" \in env.keys /\ "result" \notin env.keys

\* C8, as stated: when a repository call of a formula fails, the envelope
\* carries error and no result, and nothing is raised.
C8_FailureIsError == (HasReturned /\ env.failed) => (IsError /\ ~env.raised)

\* calculate_participation_rate for a company with respondents, when the
\* count of the respondents fails: a result computed from zero responses.
C8_FailingInput ==
    /\ IsParticipation /\ env.failed
    /\ RowsOf(db, "respondents", Company) # {}
    /\ env.total = 0 /\ env.total_employees > 0
    /\ "result" \in env.keys /\ "error" \notin env.keys


-----------------------------------------------------------------------------
(* slugify, under SpecSlug.                                                 *)

\* C12, as stated: slugify is idempotent: for every text and every maxlen,
\* the slug of the slug is the slug.
C12_SlugifyIdempotent ==
    conv.stage = "slug of slug" => conv.twice = conv.once

\* slugify("a B", 2) is "a_", and slugify("a_", 2) is "a".
C12_FailingInput ==
    /\ conv.stage = "slug of slug"
    /\ conv.text = <<"a", " ", "B">> /\ conv.maxlen = 2
    /\ conv.once = <<"a", "_">> /\ conv.twice = <<"a">>


-----------------------------------------------------------------------------
(* The loader followed by the converter, under SpecLoad.                    *)

OtherLabel == <<"o","t","h","e","r"," ","p","l","e","a","s","e"," ","s","p","e","c","i","f","y">>
OtherMerged == OtherLabel \o ColonSpace \o Carpool

\* Respondent r wrote "Carpool" under the option "Other (please specify)" in
\* raw column idx.
WroteCarpool(r, idx) ==
    /\ conv.raw.option_row[idx] = PyStr(OtherHead)
    /\ conv.raw.rows[r][idx] = PyStr(Carpool)

\* The entries of the answer lists of respondent r.
ListEntries(r) ==
    UNION {Range(conv.out[r][k].answer.items) : k \in 1..Len(conv.out[r])}

-----------------------------------------------------------------------------
(* The figures of the formulas, under SpecAn.                               *)

StoredRespondents == Cardinality(RowsOf(db, "respondents", Company))

\* v hundredths is a hundredth nearest to 100 * n / d
NearestHundredth(v, n, d) ==
    LET diff == v * d - 10000 * n
    IN  2 * (IF diff < 0 THEN -diff ELSE diff) <= d

\* C13, as stated: calculate_participation_rate returns
\* round(100 * stored respondents / total_employees, 2) as its result when
\* total_employees > 0, and the result 0 with an error when
\* total_employees <= 0.
C13_ParticipationRate ==
    IsParticipation =>
        IF env.total_employees > 0
        THEN /\ "result" \in env.keys
             /\ NearestHundredth(env.value, StoredRespondents, env.total_employees)
        ELSE env.value = 0 /\ {"result", "error"} \subseteq env.keys

\* one respondent is stored, total_employees is 1 and the count of the
\* respondents fails: the rate returned is 0 and not 100
C13_FailingInput ==
    /\ IsParticipation /\ env.failed
    /\ StoredRespondents = 1 /\ env.total_employees = 1
    /\ "result" \in env.keys /\ env.value = 0

\* without a failure of the repository the rate is the rounded quotient:
\* one respondent of three employees gives 33.33
C13_RoundedRate ==
    /\ IsParticipation /\ ~env.failed
    /\ StoredRespondents = 1 /\ env.total_employees = 3
    /\ env.value = 3333


-----------------------------------------------------------------------------
(* The figures of the postal-code formula, under SpecPostal.                *)

IsPostal == env.formula = "calculate_postal_code_distribution"

\* The codes stored for the question, each with the number of respondents
\* who gave it, and the percentage the formula gives a code.
StoredCodes == {Strip(a.open_value) : a \in {b \in db.answers : NonBlank(b.open_value)}}
RespondentsOfCode(code) ==
    Cardinality({a \in db.answers : NonBlank(a.open_value) /\ Strip(a.open_value) = code})
PercentageOf(code) == Round2(RespondentsOfCode(code), Cardinality(db.respondents))

\* The code of a key of the result
CodeOfKey(key) == IF Contains(key, Dash) THEN SubSeq(key, 1, Find(key, Dash) - 1) ELSE key
Retained ==
    {CodeOfKey(env.figures.result[k].key) : k \in 1..Len(env.figures.result)} \ {Otros}

RECURSIVE SumOfPercentages(_)
SumOfPercentages(S) ==
    IF S = {} THEN 0
    ELSE LET x == CHOOSE y \in S : TRUE
         IN  PercentageOf(x) + SumOfPercentages(S \ {x})

AbsDiff(a, b) == IF a < b THEN b - a ELSE a - b

\* C14, as stated: with more than 10 distinct codes stored, the result has at
\* most 11 keys and "Otros" is 100 minus the sum of the 10 retained
\* percentages, within 0.01.
C14_Original ==
    (IsPostal /\ Cardinality(StoredCodes) > TopCodes) =>
        /\ Len(env.figures.result) <= TopCodes + 1
        /\ HasKey(env.figures.result, Otros)
        /\ AbsDiff(ValueOf(env.figures.result, Otros),
                   10000 - SumOfPercentages(Retained)) <= 1

\* C14: with more than 10 distinct codes stored, the result has at most 11
\* keys: 10 codes, none of a lower percentage than a code left out, and
\* "Otros", which is the sum of the rounded percentages of the codes left
\* out.
C14_OtrosIsSumOfRest ==
    (IsPostal /\ Cardinality(StoredCodes) > TopCodes) =>
        /\ Len(env.figures.result) <= TopCodes + 1
        /\ Retained \subseteq StoredCodes /\ Cardinality(Retained) = TopCodes
        /\ \A c \in Retained, o \in StoredCodes \ Retained :
              PercentageOf(c) >= PercentageOf(o)
        /\ HasKey(env.figures.result, Otros)
        /\ ValueOf(env.figures.result, Otros)
              = SumOfPercentages(StoredCodes \ Retained)

\* twelve codes of one respondent each: every code has 8.33, "Otros" is
\* 16.66 and the ten retained leave 16.70
C14_Witness ==
    /\ IsPostal /\ Cardinality(StoredCodes) = 12 /\ Cardinality(db.respondents) = 12
    /\ Len(env.figures.result) = 11
    /\ ValueOf(env.figures.result, Otros) = 1666
    /\ SumOfPercentages(Retained) = 8330


-----------------------------------------------------------------------------
(* Claims about the search of a formula for its question *)

FormulaOf(name) ==
    Formulas[CHOOSE i \in 1..Len(Formulas) : Formulas[i].name = name]

\* every keyword the condition of the formula looks for
KeywordsOf(f) ==
    LET test == KeywordTest(f)
    IN  {test[a][k][w] : <<a, k, w>> \in
            {t \in (1..Len(test)) \X (1..4) \X (1..20) :
                 /\ t[2] <= Len(test[t[1]])
                 /\ t[3] <= Len(test[t[1]][t[2]])}}

ContainsAKeyword(f, text) ==
    \E keyword \in KeywordsOf(f) : Contains(Lower(text), keyword)

Lowest(qs) == CHOOSE q \in qs : \A r \in qs : q.id <= r.id

\* the formula of env has run its loop over the questions
Searched ==
    /\ env.formula # "none"
    /\ ~(FormulaOf(env.formula).kind = "multimodal" /\ db.respondents = {})

-----------------------------------------------------------------------------
(* Claims about what save_survey_data_batch stores *)

\* The last call was a save that got past the upsert of the questions.
QuestionsStored == last.op = "save" /\ last.failed # "questions"

SavedEntries == Entries(last.data, 1)

\* the first QA entry of a question text, in respondent order
FirstEntry(text) ==
    SavedEntries[CHOOSE i \in 1..Len(SavedEntries) :
                    /\ SavedEntries[i].question = text
                    /\ \A j \in 1..(i - 1) : SavedEntries[j].question # text]

ShapeType(answer) ==
    CASE answer.kind = "list" -> "multi"
      [] answer.kind = "str" /\ \E i \in 1..Len(answer.s) : ~IsSpace(answer.s[i])
            -> "single"
      [] OTHER -> "open"

\* C17: save_survey_data_batch stores, for each question text, the
\* question_type and question_index of the first QA entry with that text in
\* respondent order (a list gives multi, a non-empty string single, anything
\* else open); the answers of later respondents never change the stored type.
C17_TypeFromFirstEntry ==
    QuestionsStored =>
        \A text \in TextsOf(last.data) :
            LET rows == QuestionRows(db, last.company, text)
            IN  /\ rows # {}
                /\ \A q \in rows :
                      /\ q.question_type = ShapeType(FirstEntry(text).answer)
                      /\ q.question_index = FirstEntry(text).index

\* A question is stored with the type of its first entry while a later
\* respondent's answer has the shape of another type.
C17_Witness ==
    /\ QuestionsStored
    /\ \E i \in 1..Len(SavedEntries) :
          LET qa == SavedEntries[i]
          IN  /\ ShapeType(qa.answer) # ShapeType(FirstEntry(qa.question).answer)
              /\ \E q \in QuestionRows(db, last.company, qa.question) :
                    q.question_type = ShapeType(FirstEntry(qa.question).answer)


\* C18: after save_survey_data_batch every options row belongs to a question
\* whose stored question_type is single or multi; no options row is created
\* for a question stored with type open, whatever the order and the shapes
\* of the answers of the respondents.
C18_OptionsOnlyForClosed ==
    last.op = "save" =>
        \A o \in db.options : \A q \in db.questions :
            q.id = o.question_id => q.question_type \in {"single", "multi"}

\* The first save into an empty store, no repository call raising: the first
\* respondent leaves the open question blank, a later one answers it, and an
\* options row of the question typed open is stored.
C18_FailingInput ==
    /\ last.op = "save" /\ last.ok /\ last.n = 1
    /\ ShapeType(SavedEntries[1].answer) = "open"
    /\ \E i \in 2..Len(SavedEntries) :
          /\ SavedEntries[i].question = SavedEntries[1].question
          /\ ShapeType(SavedEntries[i].answer) = "single"
    /\ \E o \in db.options : \E q \in db.questions :
          /\ q.id = o.question_id
          /\ q.question_text = SavedEntries[1].question
          /\ q.question_type = "open"


\* A call of save_survey_data_batch that returns success.
SaveSucceeds == last'.op = "save" /\ last'.ok /\ last'.n = last.n + 1

\* the answers row the step wrote for respondent r (by position) and a text
WroteAnswer(r, text) ==
    LET new == ById(db'.respondents \ db.respondents)
    IN  \E a \in db'.answers \ db.answers : \E q \in db'.questions :
           /\ a.respondent_id = new[r].id
           /\ a.question_id = q.id
           /\ q.company_id = last'.company /\ q.question_text = text

\* C19: when save_survey_data_batch returns success it has inserted exactly
\* one respondents row per input respondent list and at least one answers
\* row for every QA entry of every respondent; no QA entry is left without
\* an answers row.
C19_EveryEntryHasAnswer ==
    [][SaveSucceeds =>
        LET data == last'.data
        IN  /\ Cardinality(db'.respondents \ db.respondents) = Len(data)
            /\ \A r \in 1..Len(data) : \A k \in 1..Len(data[r]) :
                  WroteAnswer(r, data[r][k].question)
    ]_vars

\* The first save into an empty store returns success, no repository call
\* raising: the first respondent answers the open question, which types it
\* single, a later one leaves it blank and gets no answers row for it.
C19_FailingInput ==
    /\ last.op = "save" /\ last.ok /\ last.n = 1
    /\ Cardinality(db.respondents) = Len(last.data)
    /\ \E r \in 2..Len(last.data) : \E k \in 1..Len(last.data[r]) :
          LET qa == last.data[r][k]
          IN  /\ qa.answer = NaN
              /\ ShapeType(FirstEntry(qa.question).answer) = "single"
              /\ ~ \E a \in db.answers : \E q \in db.questions :
                      /\ a.respondent_id = ById(db.respondents)[r].id
                      /\ a.question_id = q.id
                      /\ q.question_text = qa.question


-----------------------------------------------------------------------------
(* Claims about the percentages of the factor formulas, under SpecFactors *)

HasFigures == env.formula \in FactorFormulas /\ "result" \in env.keys

\* the stored answers that tick the option of a given text
TicksOf(key) ==
    {a \in db.answers : \E o \in db.options : o.id = a.option_id /\ o.option_text = key}

\* the distinct respondents who ticked any option of the question
Answerers == {a.respondent_id : a \in {x \in db.answers : x.option_id # NoId}}

\* the distinct respondents who ticked an option other than "ninguno"
AnswerersOfFactors == {a.respondent_id : a \in db.answers \ TicksOf(Phrase(<<"ninguno">>))}

\* the sum of the counts of the options
Mentions == Cardinality({a \in db.answers : a.option_id # NoId})

-----------------------------------------------------------------------------
(* Claims about the loader, under SpecLoad *)

Loaded == conv.stage # "raw" /\ conv.stage # "none"

\* the raw columns whose row-1 label holds one of the "other" keywords
OtherColumns ==
    {idx \in 1..Len(conv.raw.option_row) :
        /\ notna(conv.raw.option_row[idx])
        /\ IsOtherHead(str(conv.raw.option_row[idx]))}

\* the question a raw column belongs to: the nearest wording at or before it
QuestionAt(idx) ==
    conv.raw.questions[CHOOSE k \in 1..idx :
                          /\ notna(conv.raw.questions[k])
                          /\ \A m \in (k + 1)..idx : ~notna(conv.raw.questions[m])]

IndicatorName(idx) ==
    slugify(str(QuestionAt(idx)), DefaultMaxlen) \o DUnder
        \o slugify(str(conv.raw.option_row[idx]), DefaultMaxlen)

\* C23: load_surveymonkey_one_hot emits, for every column whose row-1 label
\* holds one of the "other" keywords, a 0/1 indicator column and a _text
\* column with the raw cell value, whether the column is the first of its
\* question (row 0 not empty) or a continuation column.
C23_OtherHasIndicatorAndText ==
    Loaded =>
        \A idx \in OtherColumns :
            LET name == IndicatorName(idx)
                text_name == name \o TextSuffix
            IN  /\ name \in Range(conv.df.columns)
                /\ text_name \in Range(conv.df.columns)
                /\ \A r \in 1..Len(conv.df.rows) :
                      /\ conv.df.rows[r][name]
                            = PyInt(IF notna(conv.raw.rows[r][idx]) THEN 1 ELSE 0)
                      /\ conv.df.rows[r][text_name] = conv.raw.rows[r][idx]

\* The "other" column is the first column of its question and a respondent
\* wrote a text in it: the table has the indicator and no _text column.
C23_FailingInput ==
    /\ Loaded
    /\ \E idx \in OtherColumns :
          /\ notna(conv.raw.questions[idx])
          /\ \E r \in 1..Len(conv.raw.rows) : conv.raw.rows[r][idx] = PyStr(Carpool)
          /\ IndicatorName(idx) \in Range(conv.df.columns)
          /\ (IndicatorName(idx) \o TextSuffix) \notin Range(conv.df.columns)


-----------------------------------------------------------------------------
(* Claims about the integrity of the store, under Spec *)

RefersTo(id, table) == \E row \in table : row.id = id

\* C27: in every state reached by any sequence of save_survey_data_batch and
\* delete_company_data calls, runs that fail part-way included, every
\* answers row refers to a stored respondents row and a stored questions row
\* (and a stored options row when option_id is set), and every options row
\* refers to a stored questions row.
C27_ReferentialIntegrity ==
    /\ \A a \in db.answers :
          /\ RefersTo(a.respondent_id, db.respondents)
          /\ RefersTo(a.question_id, db.questions)
          /\ a.option_id # NoId => RefersTo(a.option_id, db.options)
    /\ \A o \in db.options : RefersTo(o.question_id, db.questions)

\* C27 witness: a deletion has failed part-way: the answers of the company
\* are gone, its options and respondents are still stored.
C27_Witness ==
    /\ last.op = "delete" /\ ~last.ok
    /\ db.answers = {} /\ db.options # {} /\ db.respondents # {}


\* C28: in every state reached by any sequence of save_survey_data_batch,
\* save_survey_data and delete_company_data calls, a failure possible at any
\* step, check_company_data_exists returns true whenever the company has a
\* respondents, answers or options row.
C28_ExistsSeesEveryRow ==
    \A c \in db.companies :
        (\/ RowsOf(db, "respondents", c.id) # {}
         \/ RowsOf(db, "answers", c.id) # {}
         \/ RowsOf(db, "options", c.id) # {})
            => check_company_data_exists(db, c.id)

\* save_survey_data_batch has returned success for a blank row of a table
\* with closed questions only, no repository call raising: a respondents row
\* is stored and check_company_data_exists returns false.
C28_FailingInput ==
    /\ last.op = "save" /\ last.ok /\ last.fault = 0 /\ last.n = 1
    /\ \E c \in db.companies :
          /\ RowsOf(db, "respondents", c.id) # {}
          /\ ~check_company_data_exists(db, c.id)

\* save_survey_data has failed on its second repository call, the select of
\* the question: the respondents row is stored and no question is.
C28_RowByRowFailure ==
    /\ last.op = "save_survey_data" /\ ~last.ok /\ last.n = 1
    /\ \E c \in db.companies :
          /\ RowsOf(db, "respondents", c.id) # {}
          /\ ~check_company_data_exists(db, c.id)


-----------------------------------------------------------------------------
(* Claims about the distance and time distributions *)

RangeComputed == env.formula \in RangeFormulas /\ "result" \in env.keys

RangeQuestion ==
    FirstQuestion(FoundQuestions(db, inst.company_id, FactorFormula(env.formula)))

\* The text an answer is read by: the text of its option, or its open value.
TextOfAnswer(a) ==
    IF a.option_id # NoId
    THEN (CHOOSE o \in db.options : o.id = a.option_id).option_text
    ELSE a.open_value

\* The respondents with an answer to the question whose text has a value.
WithAValue ==
    {a.respondent_id : a \in {x \in AnswersOfQuestion(db, inst.company_id, RangeQuestion) :
        ValueOfText(FactorFormula(env.formula), TextOfAnswer(x)) # NoValue}}

\* C21: in the distance and the time distribution, an option text or an open
\* answer that no value can be extracted from is counted in no range, and is
\* not counted in the total the percentages are divided by.
C21_NoValueNotCounted ==
    RangeComputed =>
        LET f == FactorFormula(env.formula)
            opts == OptionsOfQuestion(db, inst.company_id, RangeQuestion)
        IN  /\ \A o \in opts : ValueOfText(f, o.option_text) = NoValue
                                  => env.figures.counted_in[o.id] = 0
            /\ SumValues([k \in 1..Len(env.figures.counts) |->
                             [key |-> k, val |-> env.figures.counts[k]]], 1)
                   <= Cardinality(WithAValue)
            /\ env.figures.total = Cardinality(WithAValue)

\* One respondent answers with a text that has no value, and the total counts
\* the respondent.
C21_FailingInput ==
    /\ RangeComputed
    /\ WithAValue = {}
    /\ Cardinality(AnswersOfQuestion(db, inst.company_id, RangeQuestion)) = 1
    /\ env.figures.total = 1
    /\ \A k \in 1..Len(env.figures.counts) : env.figures.counts[k] = 0

\* C25: in the distance and the time distribution, the answers of an option
\* whose text is the name of one of the five ranges of the formula are
\* counted in the range of that name.
C25_NameCountedInItsRange ==
    RangeComputed =>
        LET f == FactorFormula(env.formula)
        IN  \A o \in OptionsOfQuestion(db, inst.company_id, RangeQuestion) :
            \A k \in 1..Len(RangesOf(f)) :
                o.option_text = RangesOf(f)[k].name
                    => /\ env.figures.counted_in[o.id] = k
                       /\ env.figures.counts[k] >= MentionsOf(db, inst.company_id, o)

\* The option named after the last range is ticked, and its answer is counted
\* in the range before it.
C25_FailingInput ==
    /\ RangeComputed
    /\ LET f == FactorFormula(env.formula)
           n == Len(RangesOf(f))
       IN  \E o \in OptionsOfQuestion(db, inst.company_id, RangeQuestion) :
              /\ o.option_text = RangesOf(f)[n].name
              /\ MentionsOf(db, inst.company_id, o) = 1
              /\ env.figures.counted_in[o.id] = n - 1
              /\ env.figures.counts[n - 1] = 1
              /\ env.figures.counts[n] = 0


-----------------------------------------------------------------------------
(* Claims about mission_respondents *)

ResultOf(name) == env.formula = name /\ "result" \in env.keys

\* The respondents with an answer to an option of the question of formula
\* `name` whose text passes Test.
Tickers(name, Test(_)) ==
    LET q == FirstQuestion(FoundQuestions(db, inst.company_id, FactorFormula(name)))
        opts == OptionsOfQuestion(db, inst.company_id, q)
    IN  RespondentsOf(AnswersOfOptions(db, inst.company_id,
                                       {o \in opts : Test(o.option_text)}))

AnyText(text) == TRUE

\* An affirmative answer: the text is sí, si, yes, true or 1, or begins with
\* one of them as a word.
SaysYes(text) ==
    LET option_text == Strip(Lower(text))
    IN  \E word \in {<<"s","í">>, <<"s","i">>, <<"y","e","s">>, <<"t","r","u","e">>, <<"1">>} :
           /\ StartsWith(option_text, word)
           /\ Len(option_text) = Len(word) \/ option_text[Len(word) + 1] \notin Letters

\* C22: when calculate_business_trips_percentage has returned a result,
\* mission_respondents is the set of the respondents that answered its
\* question affirmatively; when calculate_multimodal_workers_percentage has,
\* it is the set of the respondents that selected an option of its question;
\* the formula that ran last decides.
C22_MissionRespondents ==
    /\ ResultOf("calculate_business_trips_percentage")
          => inst.mission_respondents
                = Tickers("calculate_business_trips_percentage", SaysYes)
    /\ ResultOf("calculate_multimodal_workers_percentage")
          => inst.mission_respondents
                = Tickers("calculate_multimodal_workers_percentage", AnyText)

\* The same with the test of the code for an affirmative option: the text
\* holds one of the words somewhere.
C22_WithAWordSomewhere ==
    /\ ResultOf("calculate_business_trips_percentage")
          => inst.mission_respondents
                = Tickers("calculate_business_trips_percentage", IsAffirmative)
    /\ ResultOf("calculate_multimodal_workers_percentage")
          => inst.mission_respondents
                = Tickers("calculate_multimodal_workers_percentage", AnyText)

\* A respondent ticked "No necesito desplazarme", nobody an affirmative
\* option, and the respondent is in mission_respondents.
C22_FailingInput ==
    /\ ResultOf("calculate_business_trips_percentage")
    /\ Tickers("calculate_business_trips_percentage", SaysYes) = {}
    /\ inst.mission_respondents # {}
    /\ \A a \in AnswersOfQuestion(db, inst.company_id, [id |-> 1]) :
          (CHOOSE o \in db.options : o.id = a.option_id).option_text = MissionTexts[4]

\* C26: in every result of calculate_business_trips_percentage, N_misión is
\* the number of respondents in mission_respondents, whatever the options
\* stored, several affirmative ones included.
C26_CountIsSetSize ==
    ResultOf("calculate_business_trips_percentage")
        => env.figures.N_mision = Cardinality(inst.mission_respondents)

\* Two affirmative options, each ticked by one respondent: N_misión is 1 and
\* mission_respondents holds both.
C26_FailingInput ==
    /\ ResultOf("calculate_business_trips_percentage")
    /\ Cardinality(Tickers("calculate_business_trips_percentage", SaysYes)) = 2
    /\ Cardinality(inst.mission_respondents) = 2
    /\ env.figures.N_mision = 1


-----------------------------------------------------------------------------
(* Claims about the postal codes from the table to the formula *)

PostalComputed ==
    /\ last.op = "save" /\ last.ok
    /\ env.formula = PostalFormula.name

\* The code of a respondent of the table that was saved: the answer to the
\* question when it is a string that is not blank, <<>> otherwise.
CodeOf(qa_list) ==
    IF qa_list # <<>> /\ qa_list[1].answer.kind = "str" /\ NonBlank(qa_list[1].answer.s)
    THEN Strip(qa_list[1].answer.s) ELSE <<>>

GivenCodes == {CodeOf(last.data[r]) : r \in 1..Len(last.data)} \ {<<>>}

CountedCodes == {env.figures.counts[k].key : k \in 1..Len(env.figures.counts)}

\* C24: from the table to the formula, for an open question on the postal
\* code saved with save_survey_data_batch, calculate_postal_code_distribution
\* counts the code of every respondent that gave one exactly once, and counts
\* no blank answer as a code, whether the first respondent answered or not.
C24_EveryCodeOnce ==
    PostalComputed =>
        /\ GivenCodes # {} => "result" \in env.keys
        /\ \A code \in GivenCodes \cup CountedCodes :
              /\ code \in GivenCodes
              /\ HasKey(env.figures.counts, code)
              /\ ValueOf(env.figures.counts, code)
                    = Cardinality({r \in 1..Len(last.data) : CodeOf(last.data[r]) = code})

\* The first respondent gives a code, the second leaves the cell empty: the
\* formula returns a result that counts no code.
C24_FailingInput ==
    /\ PostalComputed /\ "result" \in env.keys
    /\ Len(last.data) = 2
    /\ CodeOf(last.data[1]) = Five /\ last.data[2][1].answer = NaN
    /\ env.figures.counts = <<>>
    /\ env.figures.total = 1

\* The first respondent leaves the cell empty, the second gives a code: the
\* formula counts "nan" as a code.
C24_BlankCounted ==
    /\ PostalComputed /\ "result" \in env.keys
    /\ Len(last.data) = 2
    /\ last.data[1][1].answer = NaN /\ CodeOf(last.data[2]) = Five
    /\ HasKey(env.figures.counts, <<"n","a","n">>)
    /\ env.figures.total = 2

====
